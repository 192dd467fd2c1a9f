---------------------------- MODULE BillingHistory ----------------------------
(***************************************************************************)
(* Theorems about what a subscription of MandateBilling leaves behind: its *)
(* requests, its payments and their records, and what all of it promises   *)
(* the subscriber: amounts within the consent, usage charges as computed,  *)
(* the contract of RecurringPayment.  For every value of the constants.    *)
(***************************************************************************)
EXTENDS BillingProofs, FiniteSetTheorems

\* Nothing happened to a mandate before it was opened.
Fresh == mandate.status = "Absent" => /\ mandate.pulls = 0 /\ mandate.recorded = 0
                                      /\ mandate.vNonce = 0 /\ mandate.bNonce = 0

\* Payments are numbered up to the pull counter, their periods lie behind.
PaymentsBehind == \A p \in payments : /\ p.pull \in Nat /\ p.pull <= mandate.pulls
                                      /\ p.end \in Nat /\ p.end < mandate.nextDue

\* A pull that waits for its record is a flat one, and the last.
LastIsFlat == mandate.recorded < mandate.pulls =>
                \E p \in payments : p.type = "Flat" /\ p.pull = mandate.pulls

\* A record is only asked for a pull that had none.
RecordRequests ==
  \A r \in pending : r.flow = "BillingRecord" =>
    /\ r.subject <= mandate.pulls
    /\ r.subject = mandate.pulls =>
         mandate.recorded < mandate.pulls \/ mandate.pulls \in events

\* Nonces grow: each computation is queued under a new one.
NonceOf(flow) == IF flow = "BillingRecord" THEN mandate.bNonce ELSE mandate.vNonce
Numbered == /\ IsFiniteSet(pending) /\ IsFiniteSet(queued)
            /\ \A c \in queued : c.nonce <= NonceOf(c.flow)

\* The inductive invariant, on top of BillingInv.
HistoryInv == /\ Fresh /\ PaymentsBehind /\ LastIsFlat /\ RecordRequests /\ Numbered
              /\ RequestsAnsweredOnce /\ RecordsSequential /\ NoPeriodPaidTwice
------------------------------------------------------------------------------
\* The flat pulls among some payments, up to a number.
FlatPulls(S, k) == {p.pull : p \in {q \in S : q.type = "Flat" /\ q.pull <= k}}

LEMMA InFlatPulls ==
  ASSUME NEW S, NEW k, NEW x
  PROVE  x \in FlatPulls(S, k) <=> \E q \in S : q.type = "Flat" /\ q.pull <= k /\ q.pull = x
  BY DEF FlatPulls

LEMMA SequentialMeans ==
  RecordsSequential <=> /\ mandate.recorded \in {mandate.pulls - 1, mandate.pulls}
                        /\ events = FlatPulls(payments, mandate.recorded)
  BY DEF RecordsSequential, FlatPulls

\* Most instructions change no counter, record or request, and at most move
\* the due date forward.
Quiet == /\ UNCHANGED <<pending, queued, events, payments, answers>>
         /\ UNCHANGED <<mandate.pulls, mandate.recorded, mandate.vNonce, mandate.bNonce>>
         /\ mandate'.nextDue \in Nat /\ mandate'.nextDue >= mandate.nextDue

LEMMA QuietKeeps ==
  ASSUME BillingInv, HistoryInv, Quiet, mandate'.status = "Absent" => Fresh'
  PROVE  HistoryInv'
<1>1. /\ mandate.nextDue \in Nat /\ PaymentsBehind /\ Numbered /\ LastIsFlat /\ RecordRequests
      /\ RequestsAnsweredOnce /\ RecordsSequential /\ NoPeriodPaidTwice
  BY FieldTypes DEF BillingInv, HistoryInv
<1>2. Fresh'
  BY DEF Fresh
<1>3. PaymentsBehind'
  BY <1>1 DEF PaymentsBehind, Quiet
<1>4. LastIsFlat' /\ RecordRequests' /\ Numbered'
  BY <1>1 DEF LastIsFlat, RecordRequests, Numbered, NonceOf, Quiet
<1>5. RequestsAnsweredOnce' /\ NoPeriodPaidTwice' /\ RecordsSequential'
  BY <1>1 DEF RequestsAnsweredOnce, NoPeriodPaidTwice, RecordsSequential, Quiet
<1> QED
  BY <1>2, <1>3, <1>4, <1>5 DEF HistoryInv

LEMMA SubscribeQuiet ==
  ASSUME BillingInv, HistoryInv, NEW p \in PlanIds, Subscribe(p)
  PROVE  HistoryInv'
<1> DEFINE m == WithTerms(NoMandate, p)
<1>1. /\ TypeOK /\ NoMandate \in MandateType /\ now \in Nat
      /\ mandate.status = "Absent" /\ mandate.nextDue = 0 /\ Fresh
  BY FieldTypes DEF BillingInv, HistoryInv, Tied, Subscribe, NoMandate, MandateType,
                    Statuses, BillingTypes
<1>2. FirstDue(plans[p]) \in Nat
  BY <1>1, TermTypes DEF FirstDue
<1>3. /\ m \in MandateType /\ m.pulls = 0 /\ m.recorded = 0
      /\ m.vNonce = 0 /\ m.bNonce = 0
  <2>1. /\ NoMandate.pulls = 0 /\ NoMandate.recorded = 0
        /\ NoMandate.vNonce = 0 /\ NoMandate.bNonce = 0
    BY DEF NoMandate
  <2>2. m.vNonce = NoMandate.vNonce /\ m.bNonce = NoMandate.bNonce
    BY <1>1 DEF WithTerms, MandateType
  <2> QED
    BY <1>1, <2>1, <2>2, TermsTaken
<1>4. mandate' = [m EXCEPT !.status = "Active", !.expiry = ExpiryOf(plans[p]),
                           !.nextDue = FirstDue(plans[p])]
  BY DEF Subscribe
<1> HIDE DEF m
<1>5. /\ mandate'.status = "Active" /\ mandate'.nextDue = FirstDue(plans[p])
      /\ mandate'.pulls = 0 /\ mandate'.recorded = 0
      /\ mandate'.vNonce = 0 /\ mandate'.bNonce = 0
  BY <1>3, <1>4 DEF MandateType
<1>6. Quiet
  BY <1>1, <1>2, <1>5 DEF Quiet, Fresh, Subscribe, requests
<1> QED
  BY <1>5, <1>6, QuietKeeps

LEMMA PlanChangeQuiet ==
  ASSUME BillingInv, HistoryInv, NEW who \in Signers, NEW p \in PlanIds,
         UpdateMandatePlan(who, p)
  PROVE  HistoryInv'
<1> DEFINE taken == WithTerms(mandate, p)
           delta == Proration(mandate, plans[p].amount)
           extra == IF delta < 0 THEN -delta ELSE 0
<1>1. /\ mandate.status = "Active" /\ mandate \in MandateType /\ mandate.nextDue \in Nat
      /\ mandate' = [taken EXCEPT !.credit = @ + extra]
      /\ UNCHANGED <<pending, queued, events, payments, answers>>
  BY FieldTypes DEF BillingInv, TypeOK, UpdateMandatePlan, requests
<1>2. /\ taken \in MandateType /\ taken.status = "Active" /\ taken.nextDue = mandate.nextDue
      /\ taken.pulls = mandate.pulls /\ taken.recorded = mandate.recorded
      /\ taken.vNonce = mandate.vNonce /\ taken.bNonce = mandate.bNonce
  BY <1>1, TermsTaken DEF BillingInv, WithTerms, MandateType
<1> HIDE DEF taken, delta, extra
<1>3. /\ mandate'.status = "Active" /\ mandate'.nextDue = mandate.nextDue
      /\ mandate'.pulls = mandate.pulls /\ mandate'.recorded = mandate.recorded
      /\ mandate'.vNonce = mandate.vNonce /\ mandate'.bNonce = mandate.bNonce
  BY <1>1, <1>2 DEF MandateType
<1> QED
  BY <1>1, <1>3, QuietKeeps DEF Quiet

\* The other instructions that ask for, answer and charge nothing.
LEMMA OthersQuiet ==
  ASSUME BillingInv, HistoryInv,
         \/ \E who \in Signers : \/ SubmitUsageReport(who) \/ CancelPlanChange(who)
                                 \/ Cancel(who) \/ AdminCancel(who) \/ CloseMandate(who)
         \/ \E who \in Signers, p \in PlanIds :
              \/ SchedulePlanChange(who, p)
              \/ \E revision \in Revisions :
                   UpdatePlan(who, p, revision) \/ UpdateUsagePlan(who, p, revision)
         \/ \E amount \in Deposits : Fund(amount)
         \/ \E flag \in BOOLEAN : SetPaused(flag) \/ SetTokenEnabled(flag)
         \/ Tick
         \/ UNCHANGED vars
  PROVE  HistoryInv'
<1>1. mandate \in MandateType /\ mandate.nextDue \in Nat /\ Fresh
  BY FieldTypes DEF BillingInv, TypeOK, HistoryInv
<1>2. /\ UNCHANGED <<pending, queued, events, payments, answers>>
      /\ \/ mandate' = mandate
         \/ \E s \in {"Cancelled", "Closed"} : mandate' = [mandate EXCEPT !.status = s]
         \/ \E q \in PlanIds \cup {NoPlan}, t \in Nat :
              /\ mandate.status = "Active"
              /\ mandate' = [mandate EXCEPT !.pendingPlan = q, !.pendingAt = t]
  <2>1. CASE \E who \in Signers : \/ CancelPlanChange(who)
                                 \/ \E p \in PlanIds : SchedulePlanChange(who, p)
    BY <1>1, <2>1 DEF CancelPlanChange, SchedulePlanChange, requests, ghosts
  <2>2. CASE \E who \in Signers : Cancel(who) \/ AdminCancel(who) \/ CloseMandate(who)
    BY <2>2 DEF Cancel, AdminCancel, CancelMandate, CloseMandate, requests, ghosts
  <2>3. CASE \/ \E who \in Signers : SubmitUsageReport(who)
             \/ \E who \in Signers, p \in PlanIds, revision \in Revisions :
                  UpdatePlan(who, p, revision) \/ UpdateUsagePlan(who, p, revision)
             \/ \E amount \in Deposits : Fund(amount)
             \/ \E flag \in BOOLEAN : SetPaused(flag) \/ SetTokenEnabled(flag)
             \/ Tick
             \/ UNCHANGED vars
    BY <2>3 DEF SubmitUsageReport, UpdatePlan, UpdateUsagePlan, Fund, SetPaused,
                SetTokenEnabled, Tick, vars, requests, ghosts
  <2> QED
    BY <2>1, <2>2, <2>3
<1>3. /\ mandate'.nextDue = mandate.nextDue
      /\ mandate'.pulls = mandate.pulls /\ mandate'.recorded = mandate.recorded
      /\ mandate'.vNonce = mandate.vNonce /\ mandate'.bNonce = mandate.bNonce
      /\ mandate'.status = "Absent" => mandate.status = "Absent"
  BY <1>1, <1>2 DEF MandateType
<1>4. Quiet
  <2>1. UNCHANGED <<pending, queued, events, payments, answers>>
    BY <1>2
  <2>2. mandate'.nextDue \in Nat /\ mandate'.nextDue >= mandate.nextDue
    BY <1>1, <1>3
  <2> QED
    BY <1>3, <2>1, <2>2 DEF Quiet
<1>5. mandate'.status = "Absent" => Fresh'
  BY <1>1, <1>3 DEF Fresh
<1> QED
  BY <1>4, <1>5, QuietKeeps
------------------------------------------------------------------------------
\* A request is a new pending one and a new computation, under the next nonce.
LEMMA RequestCounted ==
  ASSUME BillingInv, HistoryInv, NEW c \in ComputationType, Start(c),
         c.nonce = NonceOf(c.flow) + 1,
         \/ /\ c.flow # "BillingRecord"
            /\ mandate' = [mandate EXCEPT !.vNonce = @ + 1]
         \/ /\ c.flow = "BillingRecord" /\ c.subject = mandate.pulls
            /\ mandate.recorded < mandate.pulls
            /\ mandate' = [mandate EXCEPT !.bNonce = @ + 1],
         mandate.status # "Absent",
         UNCHANGED <<events, payments, answers>>
  PROVE  HistoryInv'
<1>1. /\ mandate \in MandateType /\ mandate.vNonce \in Nat /\ mandate.bNonce \in Nat
      /\ queued \subseteq ComputationType /\ mandate.nextDue \in Nat
      /\ PaymentsBehind /\ Numbered /\ LastIsFlat /\ RecordRequests
      /\ RequestsAnsweredOnce /\ RecordsSequential /\ NoPeriodPaidTwice
  BY FieldTypes DEF BillingInv, TypeOK, HistoryInv
<1>2. /\ pending' = pending \cup {Request(c)} /\ queued' = queued \cup {c}
      /\ Request(c).flow = c.flow /\ Request(c).subject = c.subject
  BY DEF Start, Request
<1>3. /\ mandate'.pulls = mandate.pulls /\ mandate'.recorded = mandate.recorded
      /\ mandate'.nextDue = mandate.nextDue /\ mandate'.status = mandate.status
      /\ mandate'.vNonce >= mandate.vNonce /\ mandate'.bNonce >= mandate.bNonce
      /\ c.nonce <= NonceOf(c.flow)'
  BY <1>1 DEF MandateType, NonceOf
<1>4. Request(c) \notin pending
  BY <1>2 DEF Start
<1>5. c \notin queued
  <2>1. c.nonce \in Nat /\ NonceOf(c.flow) \in Nat
    BY <1>1 DEF NonceOf, ComputationType
  <2> QED
    BY <1>1, <2>1 DEF Numbered
<1>6. Numbered'
  <2>1. IsFiniteSet(pending') /\ IsFiniteSet(queued')
    BY <1>1, <1>2, FS_AddElement DEF Numbered
  <2>2. ASSUME NEW d \in queued PROVE d.nonce <= NonceOf(d.flow)'
    BY <1>1, <1>3 DEF Numbered, NonceOf, ComputationType, MandateType
  <2>3. \A d \in queued' : d.nonce <= NonceOf(d.flow)'
    BY <1>2, <1>3, <2>2
  <2> QED
    BY <2>1, <2>3 DEF Numbered, NonceOf
<1>7. RequestsAnsweredOnce'
  <2>1. /\ Cardinality(pending') = Cardinality(pending) + 1
        /\ Cardinality(queued') = Cardinality(queued) + 1
        /\ Cardinality(pending) \in Nat /\ Cardinality(queued) \in Nat
    BY <1>1, <1>2, <1>4, <1>5, FS_AddElement, FS_CardinalityType DEF Numbered
  <2> QED
    BY <1>1, <2>1 DEF RequestsAnsweredOnce, BillingInv, TypeOK
<1>8. RecordRequests'
  BY <1>1, <1>2, <1>3 DEF RecordRequests, MandateType
<1>9. Fresh' /\ PaymentsBehind' /\ LastIsFlat' /\ NoPeriodPaidTwice' /\ RecordsSequential'
  BY <1>1, <1>3 DEF Fresh, PaymentsBehind, LastIsFlat, NoPeriodPaidTwice, RecordsSequential
<1> QED
  BY <1>6, <1>7, <1>8, <1>9 DEF HistoryInv

LEMMA RequestsCounted ==
  ASSUME BillingInv, HistoryInv,
         \/ \E verdict \in Verdicts : RequestValidation(verdict)
         \/ \E r \in reports, charge \in Charges : RequestUsageComputation(r, charge)
         \/ RequestBillingRecord
  PROVE  HistoryInv'
<1>0. /\ mandate.nextDue \in Nat /\ mandate.pulls \in Nat /\ mandate.vNonce \in Nat
      /\ mandate.bNonce \in Nat /\ mandate.frequency \in Nat
      /\ mandate.plan \in PlanIds \cup {NoPlan}
  BY FieldTypes DEF BillingInv
<1>1. ASSUME NEW verdict \in Verdicts, RequestValidation(verdict) PROVE HistoryInv'
  <2> DEFINE c == [flow |-> "Validation", subject |-> mandate.nextDue,
                   nonce |-> mandate.vNonce + 1, result |-> verdict, plan |-> NoPlan]
  <2>1. /\ c \in ComputationType /\ c.flow = "Validation"
        /\ c.nonce = NonceOf(c.flow) + 1
    BY <1>0, OutcomesAssumption DEF ComputationType, Flows, NonceOf
  <2>2. /\ Start(c) /\ mandate' = [mandate EXCEPT !.vNonce = @ + 1]
        /\ mandate.status # "Absent" /\ UNCHANGED <<events, payments, answers>>
    BY <1>1 DEF RequestValidation
  <2> HIDE DEF c
  <2> QED
    BY <2>1, <2>2, RequestCounted
<1>2. ASSUME NEW r \in reports, NEW charge \in Charges, RequestUsageComputation(r, charge)
      PROVE  HistoryInv'
  <2> DEFINE c == [flow |-> "UsageComputation", subject |-> r.start,
                   nonce |-> mandate.vNonce + 1, result |-> charge, plan |-> NoPlan]
  <2>1. r.start \in Int
    BY <1>0, <1>2 DEF RequestUsageComputation, IsCurrent, PeriodStart
  <2>2. /\ c \in ComputationType /\ c.flow = "UsageComputation"
        /\ c.nonce = NonceOf(c.flow) + 1
    BY <1>0, <2>1, OutcomesAssumption DEF ComputationType, Flows, NonceOf
  <2>3. /\ Start(c) /\ mandate' = [mandate EXCEPT !.vNonce = @ + 1]
        /\ mandate.status # "Absent" /\ UNCHANGED <<events, payments, answers>>
    BY <1>2 DEF RequestUsageComputation
  <2> HIDE DEF c
  <2> QED
    BY <2>2, <2>3, RequestCounted
<1>3. ASSUME RequestBillingRecord PROVE HistoryInv'
  <2> DEFINE c == [flow |-> "BillingRecord", subject |-> mandate.pulls,
                   nonce |-> mandate.bNonce + 1, result |-> 0, plan |-> mandate.plan]
  <2>1. /\ c \in ComputationType /\ c.flow = "BillingRecord"
        /\ c.nonce = NonceOf(c.flow) + 1 /\ c.subject = mandate.pulls
    BY <1>0 DEF ComputationType, Flows, NonceOf
  <2>2. /\ Start(c) /\ mandate' = [mandate EXCEPT !.bNonce = @ + 1]
        /\ mandate.recorded < mandate.pulls
        /\ mandate.status # "Absent" /\ UNCHANGED <<events, payments, answers>>
    BY <1>3 DEF RequestBillingRecord, Exists, ghosts
  <2> HIDE DEF c
  <2> QED
    BY <2>1, <2>2, RequestCounted
<1> QED
  BY <1>1, <1>2, <1>3
------------------------------------------------------------------------------
\* An accepted answer takes one pending request away.
LEMMA AnswerCounted ==
  ASSUME BillingInv, HistoryInv, NEW c \in queued, Complete(c), Request(c) \in pending,
         answers' = answers + 1, queued' = queued
  PROVE  /\ RequestsAnsweredOnce'
         /\ IsFiniteSet(pending') /\ IsFiniteSet(queued') /\ pending' \subseteq pending
<1>1. /\ IsFiniteSet(pending) /\ IsFiniteSet(queued) /\ RequestsAnsweredOnce
      /\ answers \in Nat
  BY DEF HistoryInv, Numbered, BillingInv, TypeOK
<1>2. pending' = pending \ {Request(c)}
  BY DEF Complete
<1>3. /\ Cardinality(pending') = Cardinality(pending) - 1 /\ IsFiniteSet(pending')
      /\ Cardinality(pending) \in Nat
  BY <1>1, <1>2, FS_RemoveElement, FS_CardinalityType
<1> QED
  BY <1>1, <1>2, <1>3 DEF RequestsAnsweredOnce

LEMMA ApprovalCounted ==
  ASSUME BillingInv, HistoryInv, NEW c \in queued, Complete(c), Request(c) \in pending,
         answers' = answers + 1, UNCHANGED <<queued, mandate, events, payments>>
  PROVE  HistoryInv'
<1>1. RequestsAnsweredOnce' /\ Numbered' /\ pending' \subseteq pending
  BY AnswerCounted DEF HistoryInv, Numbered, NonceOf
<1>2. RecordRequests'
  BY <1>1 DEF HistoryInv, RecordRequests
<1>3. Fresh' /\ PaymentsBehind' /\ LastIsFlat' /\ NoPeriodPaidTwice' /\ RecordsSequential'
  BY DEF HistoryInv, Fresh, PaymentsBehind, LastIsFlat, NoPeriodPaidTwice, RecordsSequential
<1> QED
  BY <1>1, <1>2, <1>3 DEF HistoryInv

\* The record of the last pull: it was a flat one, and had none.
LEMMA RecordCounted ==
  ASSUME BillingInv, HistoryInv, NEW c \in queued, RecordBillingEventCallback(c)
  PROVE  HistoryInv'
<1>1. /\ mandate \in MandateType /\ mandate.pulls \in Nat /\ mandate.recorded \in Nat
      /\ PaymentsBehind /\ LastIsFlat /\ RecordRequests /\ NoPeriodPaidTwice /\ Fresh
      /\ RecordsSequential /\ Numbered
  BY FieldTypes DEF BillingInv, TypeOK, HistoryInv
<1>2. /\ Complete(c) /\ Request(c) \in pending /\ answers' = answers + 1
      /\ Request(c).flow = "BillingRecord" /\ Request(c).subject = mandate.pulls
      /\ mandate.pulls \notin events
      /\ events' = events \cup {mandate.pulls}
      /\ mandate' = [mandate EXCEPT !.recorded = mandate.pulls]
      /\ mandate.status # "Absent"
      /\ UNCHANGED <<queued, payments>>
  BY DEF RecordBillingEventCallback, Awaited, Request, Exists
<1>3. /\ mandate'.pulls = mandate.pulls /\ mandate'.recorded = mandate.pulls
      /\ mandate'.nextDue = mandate.nextDue /\ mandate'.status = mandate.status
      /\ mandate'.vNonce = mandate.vNonce /\ mandate'.bNonce = mandate.bNonce
  BY <1>1, <1>2 DEF MandateType
<1>4. RequestsAnsweredOnce' /\ Numbered' /\ pending' \subseteq pending
  BY <1>1, <1>2, <1>3, AnswerCounted DEF Numbered, NonceOf
<1>5. RecordRequests'
  BY <1>1, <1>2, <1>3, <1>4 DEF RecordRequests
<1>6. mandate.recorded = mandate.pulls - 1
  BY <1>1, <1>2 DEF RecordRequests, RecordsSequential
<1>7. events' = FlatPulls(payments, mandate.pulls)
  <2>1. events = FlatPulls(payments, mandate.recorded)
    BY <1>1, SequentialMeans
  <2>2. PICK last \in payments : last.type = "Flat" /\ last.pull = mandate.pulls
    BY <1>1, <1>6 DEF LastIsFlat
  <2>3. \A q \in payments : q.pull <= mandate.pulls <=>
                              q.pull <= mandate.recorded \/ q.pull = mandate.pulls
    BY <1>1, <1>6 DEF PaymentsBehind
  <2>4. \A x : x \in FlatPulls(payments, mandate.pulls) <=> x \in events \cup {mandate.pulls}
    BY <1>1, <2>1, <2>2, <2>3, InFlatPulls
  <2> QED
    BY <1>2, <2>4
<1>8. RecordsSequential'
  BY <1>1, <1>2, <1>3, <1>7 DEF RecordsSequential, FlatPulls
<1>9. Fresh' /\ PaymentsBehind' /\ LastIsFlat' /\ NoPeriodPaidTwice'
  BY <1>1, <1>2, <1>3 DEF Fresh, PaymentsBehind, LastIsFlat, NoPeriodPaidTwice
<1> QED
  BY <1>4, <1>5, <1>8, <1>9 DEF HistoryInv

\* A pull is the next payment, for a period later than all before.
LEMMA PullCounted ==
  ASSUME BillingInv, HistoryInv, NEW who \in Signers, ExecutePull(who)
  PROVE  HistoryInv'
<1> DEFINE m    == Effective(mandate)
           used == Least(Base(m), mandate.credit)
           paid == [pull |-> mandate.pulls + 1, type |-> mandate.type,
                    start |-> PeriodStart(mandate), end |-> PeriodEnd(mandate),
                    base |-> Base(m), grant |-> grantedBy]
<1>1. /\ mandate \in MandateType /\ mandate.pulls \in Nat /\ mandate.nextDue \in Nat
      /\ PaymentsBehind /\ RecordRequests /\ NoPeriodPaidTwice /\ RecordsSequential
      /\ Numbered /\ RequestsAnsweredOnce /\ pending \subseteq RequestType
  BY FieldTypes DEF BillingInv, TypeOK, HistoryInv
<1>2. /\ mandate.status = "Active" /\ mandate.recorded = mandate.pulls
      /\ m.type = mandate.type /\ mandate' = Pulled(m, used)
      /\ payments' = payments \cup {paid}
      /\ UNCHANGED <<pending, queued, events, answers>>
  BY DEF ExecutePull, requests
<1>3. /\ m \in MandateType /\ m.frequency \in Nat /\ m.frequency # 0
      /\ m.nextDue = mandate.nextDue /\ m.pulls = mandate.pulls /\ m.status = "Active"
      /\ m.recorded = mandate.recorded
      /\ m.vNonce = mandate.vNonce /\ m.bNonce = mandate.bNonce
  <2>1. m \in MandateType
    BY <1>2, EffectiveTerms
  <2>2. m.recorded = mandate.recorded /\ m.vNonce = mandate.vNonce /\ m.bNonce = mandate.bNonce
    BY <1>1 DEF Effective, WithTerms, MandateType
  <2> QED
    BY <1>2, <2>1, <2>2, EffectiveTerms DEF MandateType
<1>4. /\ paid.pull = mandate.pulls + 1 /\ paid.type = mandate.type
      /\ paid.end = mandate.nextDue
  BY DEF PeriodEnd
<1> HIDE DEF m, used, paid
<1>5. /\ mandate'.pulls = mandate.pulls + 1
      /\ mandate'.nextDue = mandate.nextDue + m.frequency
      /\ mandate'.recorded = IF mandate.type = "Usage" THEN mandate.pulls + 1
                                                       ELSE mandate.pulls
      /\ mandate'.status # "Absent"
      /\ mandate'.vNonce = mandate.vNonce /\ mandate'.bNonce = mandate.bNonce
  BY <1>1, <1>2, <1>3 DEF Pulled, MandateType
<1>6. PaymentsBehind'
  BY <1>1, <1>2, <1>3, <1>4, <1>5 DEF PaymentsBehind
<1>7. NoPeriodPaidTwice'
  BY <1>1, <1>2, <1>4 DEF NoPeriodPaidTwice, PaymentsBehind
<1>8. mandate.type \in {"Flat", "Usage"}
  BY <1>1 DEF MandateType, BillingTypes
<1>9. LastIsFlat'
  BY <1>1, <1>2, <1>4, <1>5, <1>8 DEF LastIsFlat
<1>10. RecordRequests'
  BY <1>1, <1>2, <1>5 DEF RecordRequests, RequestType
<1>11. RecordsSequential'
  <2>1. mandate'.recorded \in {mandate'.pulls - 1, mandate'.pulls}
    BY <1>1, <1>5
  <2>2. events = FlatPulls(payments, mandate.pulls)
    BY <1>1, <1>2, SequentialMeans
  <2>3. ASSUME NEW q \in payments'
        PROVE  q.type = "Flat" /\ q.pull <= mandate'.recorded
                 <=> q \in payments /\ q.type = "Flat" /\ q.pull <= mandate.pulls
    BY <1>1, <1>2, <1>4, <1>5, <1>8 DEF PaymentsBehind
  <2>4. \A x : x \in FlatPulls(payments', mandate'.recorded)
                 <=> x \in FlatPulls(payments, mandate.pulls)
    BY <1>2, <2>3, InFlatPulls
  <2> QED
    BY <1>2, <2>1, <2>2, <2>4 DEF RecordsSequential, FlatPulls
<1>12. Fresh' /\ Numbered' /\ RequestsAnsweredOnce'
  BY <1>1, <1>2, <1>5 DEF Fresh, Numbered, NonceOf, RequestsAnsweredOnce
<1> QED
  BY <1>6, <1>7, <1>9, <1>10, <1>11, <1>12 DEF HistoryInv
------------------------------------------------------------------------------
LEMMA NothingYet ==
  ASSUME Init
  PROVE  HistoryInv
<1>1. /\ mandate.pulls = 0 /\ mandate.recorded = 0 /\ mandate.vNonce = 0 /\ mandate.bNonce = 0
      /\ payments = {} /\ pending = {} /\ queued = {} /\ events = {} /\ answers = 0
  BY DEF Init, NoMandate
<1>2. Numbered /\ RequestsAnsweredOnce
  BY <1>1, FS_EmptySet DEF Numbered, RequestsAnsweredOnce
<1> QED
  BY <1>1, <1>2 DEF HistoryInv, Fresh, PaymentsBehind, LastIsFlat, RecordRequests,
                    RecordsSequential, NoPeriodPaidTwice

LEMMA StepCounted ==
  ASSUME BillingInv, HistoryInv, [Next]_vars
  PROVE  HistoryInv'
<1>1. ASSUME NEW p \in PlanIds, Subscribe(p) PROVE HistoryInv'
  BY <1>1, SubscribeQuiet
<1>2. CASE \/ \E verdict \in Verdicts : RequestValidation(verdict)
           \/ \E r \in reports, charge \in Charges : RequestUsageComputation(r, charge)
           \/ RequestBillingRecord
  BY <1>2, RequestsCounted
<1>3. ASSUME NEW c \in queued, Answer(c) PROVE HistoryInv'
  <2>1. CASE RecordBillingEventCallback(c)
    BY <2>1, RecordCounted
  <2>2. ASSUME ValidateMandateCallback(c) \/ \E r \in reports : UsageComputationCallback(c, r)
        PROVE  HistoryInv'
    BY <2>2, ApprovalCounted DEF ValidateMandateCallback, UsageComputationCallback, Awaited
  <2> QED
    BY <1>3, <2>1, <2>2 DEF Answer
<1>4. ASSUME NEW who \in Signers, ExecutePull(who) PROVE HistoryInv'
  BY <1>4, PullCounted
<1>5. ASSUME NEW who \in Signers, NEW p \in PlanIds, UpdateMandatePlan(who, p)
      PROVE  HistoryInv'
  BY <1>5, PlanChangeQuiet
<1>6. CASE \/ \E who \in Signers : \/ SubmitUsageReport(who) \/ CancelPlanChange(who)
                                   \/ Cancel(who) \/ AdminCancel(who) \/ CloseMandate(who)
           \/ \E who \in Signers, p \in PlanIds :
                \/ SchedulePlanChange(who, p)
                \/ \E revision \in Revisions :
                     UpdatePlan(who, p, revision) \/ UpdateUsagePlan(who, p, revision)
           \/ \E amount \in Deposits : Fund(amount)
           \/ \E flag \in BOOLEAN : SetPaused(flag) \/ SetTokenEnabled(flag)
           \/ Tick
           \/ UNCHANGED vars
  BY <1>6, OthersQuiet
<1> QED
  BY <1>1, <1>2, <1>3, <1>4, <1>5, <1>6 DEF Next
------------------------------------------------------------------------------
(* The theorems. *)

\* The inductive invariant of what a subscription leaves behind: counters of a
\* new mandate are zero, payments are numbered and lie behind the due date, a
\* pull that waits for its record is the last and flat, nonces grow.
THEOREM HistoryInvariant == Spec => []HistoryInv
<1>1. Init => HistoryInv
  BY NothingYet
<1>2. BillingInv /\ HistoryInv /\ [Next]_vars => HistoryInv'
  BY StepCounted
<1> QED
  BY <1>1, <1>2, BillingInvariant, PTL DEF Spec

\* Every computation that was asked for is still pending or was answered once,
\* however often and in whatever order the network calls the callbacks.
THEOREM AnsweredOnce == Spec => []RequestsAnsweredOnce
<1>1. HistoryInv => RequestsAnsweredOnce
  BY DEF HistoryInv
<1> QED
  BY <1>1, HistoryInvariant, PTL

\* execute_pull waits for the record of the pull before: at most one flat pull
\* is without its BillingEvent, through every change of plan or billing type.
THEOREM RecordsFollowPulls == Spec => []RecordsSequential
<1>1. HistoryInv => RecordsSequential
  BY DEF HistoryInv
<1> QED
  BY <1>1, HistoryInvariant, PTL

\* Two pulls never settle the same due date: execute_pull moves the due date
\* forward by a period and no plan change moves it back.
THEOREM PeriodsPaidOnce == Spec => []NoPeriodPaidTwice
<1>1. HistoryInv => NoPeriodPaidTwice
  BY DEF HistoryInv
<1> QED
  BY <1>1, HistoryInvariant, PTL
------------------------------------------------------------------------------
(* Usage reports: settled exactly by the payment of their own period. *)

\* A new report is about a due date that no payment has reached yet.
LEMMA NewReportUnpaid ==
  ASSUME BillingInv, HistoryInv, ReportsSettledByPayment,
         NEW who \in Signers, SubmitUsageReport(who)
  PROVE  ReportsSettledByPayment'
<1> DEFINE new == [start |-> PeriodStart(mandate), end |-> PeriodEnd(mandate),
                   hash |-> TermsHash(mandate.plan), settled |-> FALSE]
<1>1. /\ mandate.nextDue \in Nat /\ PaymentsBehind
      /\ reports' = reports \cup {new} /\ payments' = payments
  BY FieldTypes DEF BillingInv, HistoryInv, SubmitUsageReport, ghosts
<1>2. ~new.settled /\ new.end = mandate.nextDue
  BY DEF PeriodEnd
<1> HIDE DEF new
<1>3. \A p \in payments : p.end # new.end
  BY <1>1, <1>2 DEF PaymentsBehind
<1> QED
  BY <1>1, <1>2, <1>3 DEF ReportsSettledByPayment

\* A usage pull settles the reports of its period and no others; a flat pull
\* settles none.
LEMMA PullSettles ==
  ASSUME BillingInv, HistoryInv, ReportsSettledByPayment,
         NEW who \in Signers, ExecutePull(who)
  PROVE  ReportsSettledByPayment'
<1> DEFINE paid == [pull |-> mandate.pulls + 1, type |-> mandate.type,
                    start |-> PeriodStart(mandate), end |-> PeriodEnd(mandate),
                    base |-> Base(Effective(mandate)), grant |-> grantedBy]
<1>1. /\ payments' = payments \cup {paid}
      /\ reports' = (IF mandate.type = "Usage" THEN WithSettled ELSE reports)
      /\ reports \subseteq ReportType
  BY DEF ExecutePull, BillingInv, ReportsTimely
<1>2. /\ paid.type = mandate.type
      /\ paid.start = PeriodStart(mandate) /\ paid.end = PeriodEnd(mandate)
  OBVIOUS
<1> HIDE DEF paid
<1>3. CASE mandate.type # "Usage"
  BY <1>1, <1>2, <1>3 DEF ReportsSettledByPayment
<1>4. CASE mandate.type = "Usage"
  <2>1. ASSUME NEW r \in reports'
        PROVE  r.settled <=> \E p \in payments' : /\ p.type = "Usage"
                                                  /\ p.start = r.start /\ p.end = r.end
    <3>1. CASE r \in reports /\ r \notin CurrentReports
      <4>1. r.settled \/ ~(r.start = paid.start /\ r.end = paid.end)
        BY <1>2, <3>1 DEF CurrentReports, IsCurrent
      <4> QED
        BY <1>1, <3>1, <4>1 DEF ReportsSettledByPayment
    <3>2. CASE ~(r \in reports /\ r \notin CurrentReports)
      <4>1. PICK q \in CurrentReports : r = [q EXCEPT !.settled = TRUE]
        BY <1>1, <1>4, <3>2 DEF WithSettled
      <4>2. q \in ReportType /\ q.start = paid.start /\ q.end = paid.end
        BY <1>1, <1>2 DEF CurrentReports, IsCurrent
      <4>3. r.settled /\ r.start = paid.start /\ r.end = paid.end
        BY <4>1, <4>2 DEF ReportType
      <4> QED
        BY <1>1, <1>2, <1>4, <4>3
    <3> QED
      BY <3>1, <3>2
  <2> QED
    BY <2>1 DEF ReportsSettledByPayment
<1> QED
  BY <1>3, <1>4

\* mark_usage_report_settled marks a report exactly when its own period is
\* paid, also when plan changes relabel periods and leave reports behind.
THEOREM ReportsSettledByPull == Spec => []ReportsSettledByPayment
<1>1. Init => ReportsSettledByPayment
  BY DEF Init, ReportsSettledByPayment
<1>2. ASSUME BillingInv, HistoryInv, ReportsSettledByPayment, [Next]_vars
      PROVE  ReportsSettledByPayment'
  <2>1. \/ \E who \in Signers : SubmitUsageReport(who) \/ ExecutePull(who)
        \/ UNCHANGED <<reports, payments>>
    <3>1. ASSUME \/ \E p \in PlanIds : Subscribe(p)
                 \/ \E verdict \in Verdicts : RequestValidation(verdict)
                 \/ \E r \in reports, charge \in Charges : RequestUsageComputation(r, charge)
                 \/ RequestBillingRecord
                 \/ \E c \in queued : Answer(c)
          PROVE  UNCHANGED <<reports, payments>>
      BY <3>1 DEF Subscribe, RequestValidation, RequestUsageComputation,
                  RequestBillingRecord, Answer, ValidateMandateCallback,
                  UsageComputationCallback, RecordBillingEventCallback, ghosts
    <3>2. ASSUME NEW who \in Signers,
                 \/ CancelPlanChange(who)
                 \/ Cancel(who) \/ AdminCancel(who) \/ CloseMandate(who)
                 \/ \E p \in PlanIds :
                      \/ UpdateMandatePlan(who, p) \/ SchedulePlanChange(who, p)
                      \/ \E revision \in Revisions :
                           UpdatePlan(who, p, revision) \/ UpdateUsagePlan(who, p, revision)
          PROVE  UNCHANGED <<reports, payments>>
      BY <3>2 DEF CancelPlanChange, Cancel, AdminCancel, CancelMandate, CloseMandate,
                  UpdateMandatePlan, SchedulePlanChange, UpdatePlan, UpdateUsagePlan, ghosts
    <3>3. ASSUME \/ \E amount \in Deposits : Fund(amount)
                 \/ \E flag \in BOOLEAN : SetPaused(flag) \/ SetTokenEnabled(flag)
                 \/ Tick
                 \/ UNCHANGED vars
          PROVE  UNCHANGED <<reports, payments>>
      BY <3>3 DEF Fund, SetPaused, SetTokenEnabled, Tick, vars, ghosts
    <3> QED
      BY <1>2, <3>1, <3>2, <3>3 DEF Next
  <2>2. CASE UNCHANGED <<reports, payments>>
    BY <1>2, <2>2 DEF ReportsSettledByPayment
  <2>3. ASSUME NEW who \in Signers, SubmitUsageReport(who) \/ ExecutePull(who)
        PROVE  ReportsSettledByPayment'
    BY <1>2, <2>3, NewReportUnpaid, PullSettles
  <2> QED
    BY <2>1, <2>2, <2>3
<1>3. BillingInv /\ HistoryInv /\ ReportsSettledByPayment /\ [Next]_vars
        => ReportsSettledByPayment'
  BY <1>2
<1> QED
  BY <1>1, <1>3, BillingInvariant, HistoryInvariant, PTL DEF Spec
------------------------------------------------------------------------------
(* What the subscriber signed.  The cap of a usage plan is the one amount     *)
(* that can grow between a signature and the pull it is used by: a flat pull  *)
(* is held to the approval, which was granted at the amount signed for.       *)

\* update_usage_plan writes a higher cap than the plan had.
CapRises == \E p \in PlanIds : plans[p].type = "Usage" /\ plans'[p].amount > plans[p].amount
CapsNeverRise == [][~CapRises]_vars

\* The inductive invariant: besides the mandate, what may become its amount or
\* its charge is within the signature too, and nothing precedes the mandate.
ConsentInv ==
  /\ WithinConsent
  /\ approval.amount <= consented
  /\ mandate.pendingPlan # NoPlan /\ plans[mandate.pendingPlan].type = "Usage"
       => plans[mandate.pendingPlan].amount <= consented
  /\ mandate.status = "Absent" => mandate.credit = 0 /\ approval.amount = 0

\* The plans' types stay, and so do the caps or they fall.
TermsKept == \A p \in PlanIds : /\ plans'[p].type = plans[p].type
                                /\ plans[p].type = "Usage" => plans'[p].amount <= plans[p].amount

LEMMA StepKeepsTerms ==
  ASSUME BillingInv, [Next]_vars, [~CapRises]_vars
  PROVE  TermsKept
<1>1. plans \in [PlanIds -> PlanTerms]
  BY DEF BillingInv, TypeOK
<1>2. CASE plans' = plans
  BY <1>1, <1>2 DEF TermsKept, PlanTerms
<1>3. ASSUME NEW who \in Signers, NEW p \in PlanIds, NEW revision \in Revisions,
             UpdatePlan(who, p, revision) \/ UpdateUsagePlan(who, p, revision)
      PROVE  TermsKept
  <2>1. \A q \in PlanIds : plans'[q].type = plans[q].type
    <3>1. CASE UpdatePlan(who, p, revision)
      BY <1>1, <3>1 DEF UpdatePlan, PlanTerms
    <3>2. CASE UpdateUsagePlan(who, p, revision)
      BY <1>1, <3>2 DEF UpdateUsagePlan, PlanTerms
    <3> QED
      BY <1>3, <3>1, <3>2
  <2>2. \A q \in PlanIds : plans[q].amount \in Nat /\ plans'[q].amount \in Nat
    <3>1. plans' \in [PlanIds -> PlanTerms]
      BY StepKeeps DEF BillingInv, TypeOK
    <3> QED
      BY <1>1, <3>1 DEF PlanTerms
  <2>3. ~CapRises \/ plans' = plans
    BY DEF vars
  <2> QED
    BY <1>1, <2>1, <2>2, <2>3 DEF TermsKept, CapRises
<1>4. \/ plans' = plans
      \/ \E who \in Signers, p \in PlanIds, revision \in Revisions :
           UpdatePlan(who, p, revision) \/ UpdateUsagePlan(who, p, revision)
  BY DEF Next, vars, Subscribe, RequestValidation, RequestUsageComputation,
         RequestBillingRecord, Answer, ValidateMandateCallback, UsageComputationCallback,
         RecordBillingEventCallback, SubmitUsageReport, ExecutePull, CancelPlanChange,
         Cancel, AdminCancel, CancelMandate, CloseMandate, UpdateMandatePlan,
         SchedulePlanChange, Fund, SetPaused, SetTokenEnabled, Tick
<1> QED
  BY <1>2, <1>3, <1>4

\* Most instructions leave the mandate's amount alone; an approval they write
\* is for that amount or less.
LEMMA ConsentQuiet ==
  ASSUME BillingInv, BillingInv', ConsentInv, TermsKept,
         consented' = consented, mandate'.amount = mandate.amount,
         mandate'.pendingPlan \in {mandate.pendingPlan, NoPlan},
         approval'.amount <= mandate.amount \/ approval'.amount = approval.amount,
         mandate'.status = "Absent" => /\ mandate.status = "Absent"
                                       /\ mandate'.credit = mandate.credit
                                       /\ approval'.amount = approval.amount
  PROVE  ConsentInv'
<1>1. /\ mandate.amount \in Nat /\ consented \in Nat /\ approval.amount \in Nat
      /\ approval'.amount \in Nat /\ mandate.pendingPlan \in PlanIds \cup {NoPlan}
      /\ mandate.amount <= consented /\ approval.amount <= consented
  BY FieldTypes DEF BillingInv, TypeOK, ConsentInv, WithinConsent, ApprovalType
<1>2. approval'.amount <= consented /\ mandate'.amount <= consented
  BY <1>1
<1>3. ASSUME mandate'.pendingPlan # NoPlan, plans'[mandate'.pendingPlan].type = "Usage"
      PROVE  plans'[mandate'.pendingPlan].amount <= consented
  <2>1. mandate'.pendingPlan = mandate.pendingPlan /\ mandate.pendingPlan \in PlanIds
    BY <1>1, <1>3
  <2>2. /\ plans[mandate.pendingPlan].type = "Usage"
        /\ plans'[mandate.pendingPlan].amount <= plans[mandate.pendingPlan].amount
    BY <1>3, <2>1 DEF TermsKept
  <2>3. plans[mandate.pendingPlan].amount <= consented
    BY <1>3, <2>1, <2>2 DEF ConsentInv
  <2>4. /\ plans[mandate.pendingPlan].amount \in Nat
        /\ plans'[mandate.pendingPlan].amount \in Nat
    BY <2>1 DEF BillingInv, TypeOK, PlanTerms
  <2> QED
    BY <1>1, <2>1, <2>2, <2>3, <2>4
<1>4. mandate'.status = "Absent" => mandate'.credit = 0 /\ approval'.amount = 0
  BY DEF ConsentInv
<1> QED
  BY <1>2, <1>3, <1>4 DEF ConsentInv, WithinConsent
\* Requests, answers, reports, switches, deposits, time, and what ends a
\* mandate or drops a scheduled change.
LEMMA OthersConsent ==
  ASSUME BillingInv, BillingInv', ConsentInv, TermsKept,
         \/ \E verdict \in Verdicts : RequestValidation(verdict)
         \/ \E r \in reports, charge \in Charges : RequestUsageComputation(r, charge)
         \/ RequestBillingRecord
         \/ \E c \in queued : Answer(c)
         \/ \E who \in Signers : \/ SubmitUsageReport(who) \/ CancelPlanChange(who)
                                 \/ Cancel(who) \/ AdminCancel(who) \/ CloseMandate(who)
         \/ \E who \in Signers, p \in PlanIds, revision \in Revisions :
              UpdatePlan(who, p, revision) \/ UpdateUsagePlan(who, p, revision)
         \/ \E amount \in Deposits : Fund(amount)
         \/ \E flag \in BOOLEAN : SetPaused(flag) \/ SetTokenEnabled(flag)
         \/ Tick
         \/ UNCHANGED vars
  PROVE  ConsentInv'
<1>1. /\ mandate \in MandateType /\ mandate.amount \in Nat
      /\ mandate.pendingPlan \in PlanIds \cup {NoPlan}
  BY FieldTypes DEF BillingInv, TypeOK
<1>2. /\ Reset.amount = 0 /\ \A v \in BOOLEAN, a \in Nat : Approve(mandate, v, a).amount = a
  BY DEF Reset, NoApproval, Approve
<1>3. CASE \/ \E verdict \in Verdicts : RequestValidation(verdict)
           \/ \E r \in reports, charge \in Charges : RequestUsageComputation(r, charge)
           \/ RequestBillingRecord
  <2>1. /\ mandate.status # "Absent" /\ consented' = consented
        /\ \/ mandate' = [mandate EXCEPT !.vNonce = @ + 1] /\ approval' = Reset
           \/ mandate' = [mandate EXCEPT !.bNonce = @ + 1] /\ approval' = approval
    BY <1>3 DEF RequestValidation, RequestUsageComputation, RequestBillingRecord, Exists, ghosts
  <2>2. /\ mandate'.amount = mandate.amount /\ mandate'.pendingPlan = mandate.pendingPlan
        /\ mandate'.status = mandate.status
    BY <1>1, <2>1 DEF MandateType
  <2> QED
    BY <1>1, <1>2, <2>1, <2>2, ConsentQuiet
<1>4. CASE \E c \in queued : Answer(c)
  <2>1. PICK c \in queued : Answer(c)
    BY <1>4
  <2>2. /\ mandate.status # "Absent" /\ consented' = consented
        /\ mandate' = mandate \/ mandate' = [mandate EXCEPT !.recorded = mandate.pulls]
    BY <2>1 DEF Answer, ValidateMandateCallback, UsageComputationCallback,
                RecordBillingEventCallback, Exists
  <2>3. /\ mandate'.amount = mandate.amount /\ mandate'.pendingPlan = mandate.pendingPlan
        /\ mandate'.status = mandate.status
    BY <1>1, <2>2 DEF MandateType
  <2>4. approval'.amount <= mandate.amount \/ approval'.amount = approval.amount
    <3>1. CASE ValidateMandateCallback(c)
      <4>1. Approve(mandate, c.result = 1, mandate.amount).amount = mandate.amount
        BY DEF Approve
      <4>2. approval' = Approve(mandate, c.result = 1, mandate.amount)
        BY <3>1 DEF ValidateMandateCallback
      <4>3. approval'.amount = mandate.amount
        BY <4>1, <4>2
      <4> QED
        BY <1>1, <4>3
    <3>2. CASE \E r \in reports : UsageComputationCallback(c, r)
      <4>1. c.result \in Nat
        BY DEF BillingInv, TypeOK, ComputationType
      <4> QED
        BY <1>1, <1>2, <3>2, <4>1 DEF UsageComputationCallback, WithinCap
    <3>3. CASE RecordBillingEventCallback(c)
      BY <3>3 DEF RecordBillingEventCallback
    <3> QED
      BY <2>1, <3>1, <3>2, <3>3 DEF Answer
  <2> QED
    BY <2>2, <2>3, <2>4, ConsentQuiet
<1>5. CASE \/ \E who \in Signers : \/ SubmitUsageReport(who) \/ CancelPlanChange(who)
                                   \/ Cancel(who) \/ AdminCancel(who) \/ CloseMandate(who)
           \/ \E who \in Signers, p \in PlanIds, revision \in Revisions :
                UpdatePlan(who, p, revision) \/ UpdateUsagePlan(who, p, revision)
           \/ \E amount \in Deposits : Fund(amount)
           \/ \E flag \in BOOLEAN : SetPaused(flag) \/ SetTokenEnabled(flag)
           \/ Tick
           \/ UNCHANGED vars
  <2>1. /\ UNCHANGED <<approval, consented>>
        /\ \/ mandate' = mandate
           \/ \E s \in {"Cancelled", "Closed"} : mandate' = [mandate EXCEPT !.status = s]
           \/ mandate' = [mandate EXCEPT !.pendingPlan = NoPlan, !.pendingAt = 0]
    BY <1>5 DEF SubmitUsageReport, CancelPlanChange, Cancel, AdminCancel, CancelMandate,
                CloseMandate, UpdatePlan, UpdateUsagePlan, Fund, SetPaused, SetTokenEnabled,
                Tick, vars, ghosts
  <2>2. /\ mandate'.amount = mandate.amount /\ mandate'.credit = mandate.credit
        /\ mandate'.pendingPlan \in {mandate.pendingPlan, NoPlan}
        /\ mandate'.status = "Absent" => mandate.status = "Absent"
    BY <1>1, <2>1 DEF MandateType
  <2> QED
    BY <2>1, <2>2, ConsentQuiet
<1> QED
  BY <1>3, <1>4, <1>5

\* Opening a mandate signs for the plan's amount.
LEMMA SubscribeConsent ==
  ASSUME BillingInv, BillingInv', ConsentInv, NEW p \in PlanIds, Subscribe(p)
  PROVE  ConsentInv'
<1> DEFINE m == WithTerms(NoMandate, p)
<1>1. TypeOK /\ NoMandate \in MandateType /\ plans[p].amount \in Nat
  BY TermTypes DEF BillingInv, NoMandate, MandateType, Statuses, BillingTypes
<1>2. /\ mandate' = [m EXCEPT !.status = "Active", !.expiry = ExpiryOf(plans[p]),
                              !.nextDue = FirstDue(plans[p])]
      /\ consented' = plans[p].amount /\ approval' = approval /\ mandate.status = "Absent"
  BY DEF Subscribe
<1>3. m \in MandateType /\ m.amount = plans[p].amount /\ m.pendingPlan = NoPlan
  BY <1>1, TermsTaken DEF WithTerms, MandateType
<1> HIDE DEF m
<1>4. /\ mandate'.status = "Active" /\ mandate'.amount = plans[p].amount
      /\ mandate'.pendingPlan = NoPlan
  BY <1>2, <1>3 DEF MandateType
<1>5. approval.amount = 0
  BY <1>2 DEF ConsentInv
<1> QED
  BY <1>1, <1>2, <1>4, <1>5 DEF ConsentInv, WithinConsent

\* A change of plan is within what was signed, or signed for.
LEMMA SignatureCovers ==
  ASSUME BillingInv, ConsentInv, NEW who \in Signers, NEW p \in PlanIds, MayMoveTo(who, p)
  PROVE  /\ plans[p].amount <= SignedFor(who, p) /\ consented <= SignedFor(who, p)
         /\ SignedFor(who, p) \in Nat
<1>1. /\ plans[p].amount \in Nat /\ mandate.amount \in Nat /\ consented \in Nat
      /\ mandate.amount <= consented
  BY FieldTypes, TermTypes DEF BillingInv, TypeOK, ConsentInv, WithinConsent
<1> QED
  BY <1>1 DEF MayMoveTo, SignedFor

LEMMA PlanChangeConsent ==
  ASSUME BillingInv, BillingInv', ConsentInv,
         NEW who \in Signers, NEW p \in PlanIds, UpdateMandatePlan(who, p)
  PROVE  ConsentInv'
<1> DEFINE taken == WithTerms(mandate, p)
           delta == Proration(mandate, plans[p].amount)
           extra == IF delta < 0 THEN -delta ELSE 0
<1>1. /\ mandate.status = "Active" /\ mandate \in MandateType
      /\ mandate' = [taken EXCEPT !.credit = @ + extra]
      /\ approval' \in {NoApproval, approval} /\ consented' = SignedFor(who, p)
      /\ MayMoveTo(who, p)
  BY DEF BillingInv, TypeOK, UpdateMandatePlan
<1>2. /\ taken \in MandateType /\ taken.status = "Active"
      /\ taken.amount = plans[p].amount /\ taken.pendingPlan = NoPlan
  BY <1>1, TermsTaken DEF BillingInv, WithTerms, MandateType
<1> HIDE DEF taken, delta, extra
<1>3. /\ mandate'.status = "Active" /\ mandate'.amount = plans[p].amount
      /\ mandate'.pendingPlan = NoPlan
  BY <1>1, <1>2 DEF MandateType
<1>4. plans[p].amount <= consented' /\ consented <= consented' /\ consented' \in Nat
  BY <1>1, SignatureCovers
<1>5. /\ approval.amount <= consented /\ NoApproval.amount = 0
      /\ approval.amount \in Nat /\ consented \in Nat
  BY FieldTypes DEF ConsentInv, NoApproval, BillingInv, TypeOK
<1>6. approval'.amount <= consented'
  BY <1>1, <1>4, <1>5
<1> QED
  BY <1>3, <1>4, <1>6 DEF ConsentInv, WithinConsent

LEMMA ScheduleConsent ==
  ASSUME BillingInv, BillingInv', ConsentInv,
         NEW who \in Signers, NEW p \in PlanIds, SchedulePlanChange(who, p)
  PROVE  ConsentInv'
<1>1. /\ mandate.status = "Active" /\ mandate \in MandateType
      /\ mandate' = [mandate EXCEPT !.pendingPlan = p, !.pendingAt = mandate.nextDue]
      /\ consented' = SignedFor(who, p) /\ MayMoveTo(who, p) /\ UNCHANGED <<approval, plans>>
  BY DEF BillingInv, TypeOK, SchedulePlanChange
<1>2. /\ mandate'.status = "Active" /\ mandate'.amount = mandate.amount
      /\ mandate'.pendingPlan = p
  BY <1>1 DEF MandateType
<1>3. plans[p].amount <= consented' /\ consented <= consented' /\ consented' \in Nat
  BY <1>1, SignatureCovers
<1>4. /\ mandate.amount <= consented /\ approval.amount <= consented
      /\ mandate.amount \in Nat /\ approval.amount \in Nat /\ consented \in Nat
  BY FieldTypes DEF ConsentInv, WithinConsent, BillingInv, TypeOK
<1>5. mandate'.amount <= consented' /\ approval'.amount <= consented'
  BY <1>1, <1>2, <1>3, <1>4
<1> QED
  BY <1>1, <1>2, <1>3, <1>5 DEF ConsentInv, WithinConsent

\* A pull on scheduled terms: a flat price is held to the approval, and a cap
\* has not grown since it was signed for.
LEMMA PullConsent ==
  ASSUME BillingInv, BillingInv', ConsentInv, NEW who \in Signers, ExecutePull(who)
  PROVE  /\ ConsentInv'
         /\ Effective(mandate).amount <= consented /\ Base(Effective(mandate)) <= consented
<1> DEFINE m    == Effective(mandate)
           used == Least(Base(m), mandate.credit)
<1>1. /\ mandate.status = "Active" /\ m.type = mandate.type /\ CoveredByApproval(m)
      /\ mandate' = Pulled(m, used) /\ approval' = NoApproval /\ consented' = consented
      /\ plans' = plans
  BY DEF ExecutePull
<1>2. /\ mandate \in MandateType /\ consented \in Nat /\ approval.amount \in Nat
      /\ mandate.pendingPlan \in PlanIds \cup {NoPlan}
      /\ mandate.amount <= consented /\ approval.amount <= consented
  BY FieldTypes DEF BillingInv, TypeOK, ConsentInv, WithinConsent
<1>3. m \in MandateType /\ m.status = "Active" /\ m.amount \in Nat /\ m.type \in BillingTypes
  BY <1>1, EffectiveTerms DEF MandateType
<1>4. m.amount <= consented
  <2>1. CASE m.type = "Flat"
    BY <1>1, <1>2, <1>3, <2>1 DEF CoveredByApproval
  <2>2. CASE m.type = "Usage" /\ ChangeIsDue(mandate)
    <3>1. /\ m.amount = plans[mandate.pendingPlan].amount
          /\ m.type = plans[mandate.pendingPlan].type /\ mandate.pendingPlan # NoPlan
      BY <1>2, <2>2 DEF Effective, WithTerms, MandateType, ChangeIsDue
    <3> QED
      BY <2>2, <3>1 DEF ConsentInv
  <2>3. CASE ~ChangeIsDue(mandate)
    BY <1>2, <2>3 DEF Effective
  <2> QED
    BY <1>3, <2>1, <2>2, <2>3 DEF BillingTypes
<1>5. m.pendingPlan \in {mandate.pendingPlan, NoPlan}
  BY <1>2 DEF Effective, WithTerms, MandateType
<1>6. Base(m) <= consented
  BY <1>2, <1>4 DEF Base
<1>7. NoApproval.amount = 0
  BY DEF NoApproval
<1> HIDE DEF m, used
<1>8. /\ mandate'.amount = m.amount /\ mandate'.pendingPlan = m.pendingPlan
      /\ mandate'.status # "Absent"
  BY <1>1, <1>3 DEF Pulled, MandateType
<1>9. /\ mandate'.pendingPlan # NoPlan /\ plans'[mandate'.pendingPlan].type = "Usage"
           => plans'[mandate'.pendingPlan].amount <= consented'
  BY <1>1, <1>5, <1>8 DEF ConsentInv
<1>10. ConsentInv'
  BY <1>1, <1>2, <1>4, <1>7, <1>8, <1>9 DEF ConsentInv, WithinConsent
<1> QED
  BY <1>4, <1>6, <1>10 DEF m

LEMMA StepConsented ==
  ASSUME BillingInv, ConsentInv, [Next]_vars, [~CapRises]_vars
  PROVE  ConsentInv'
<1>0. BillingInv' /\ TermsKept
  BY StepKeeps, StepKeepsTerms
<1>1. ASSUME NEW p \in PlanIds, Subscribe(p) PROVE ConsentInv'
  BY <1>0, <1>1, SubscribeConsent
<1>2. ASSUME NEW who \in Signers, ExecutePull(who) PROVE ConsentInv'
  BY <1>0, <1>2, PullConsent
<1>3. ASSUME NEW who \in Signers, NEW p \in PlanIds,
             UpdateMandatePlan(who, p) \/ SchedulePlanChange(who, p)
      PROVE  ConsentInv'
  BY <1>0, <1>3, PlanChangeConsent, ScheduleConsent
<1>4. CASE \/ \E verdict \in Verdicts : RequestValidation(verdict)
           \/ \E r \in reports, charge \in Charges : RequestUsageComputation(r, charge)
           \/ RequestBillingRecord
           \/ \E c \in queued : Answer(c)
           \/ \E who \in Signers : \/ SubmitUsageReport(who) \/ CancelPlanChange(who)
                                   \/ Cancel(who) \/ AdminCancel(who) \/ CloseMandate(who)
           \/ \E who \in Signers, p \in PlanIds, revision \in Revisions :
                UpdatePlan(who, p, revision) \/ UpdateUsagePlan(who, p, revision)
           \/ \E amount \in Deposits : Fund(amount)
           \/ \E flag \in BOOLEAN : SetPaused(flag) \/ SetTokenEnabled(flag)
           \/ Tick
           \/ UNCHANGED vars
  BY <1>0, <1>4, OthersConsent
<1> QED
  BY <1>1, <1>2, <1>3, <1>4 DEF Next

\* What holds of consent as long as no cap rises, by induction over the steps.
LEMMA ConsentHolds == Spec /\ CapsNeverRise => []ConsentInv
<1>1. Init => ConsentInv
  BY DEF Init, ConsentInv, WithinConsent, NoMandate, NoApproval
<1>2. BillingInv /\ ConsentInv /\ [Next]_vars /\ [~CapRises]_vars => ConsentInv'
  BY StepConsented
<1> QED
  BY <1>1, <1>2, BillingInvariant, PTL DEF Spec, CapsNeverRise

\* The amount of a mandate never rises above what its subscriber signed, by
\* any party's plan change, by a scheduled change or by any revision of a flat
\* plan, as long as update_usage_plan raises no cap: a scheduled change takes
\* the cap its plan has by then, and nobody signs for that.
THEOREM AmountWithinConsent == Spec /\ CapsNeverRise => []WithinConsent
<1>1. ConsentInv => WithinConsent
  BY DEF ConsentInv
<1> QED
  BY <1>1, ConsentHolds, PTL
------------------------------------------------------------------------------
(* The subscription keeps what RecurringPayment promises its parties.         *)

LEMMA SubscribeOpens ==
  ASSUME BillingInv, HistoryInv, ConsentInv, NEW p \in PlanIds, Subscribe(p)
  PROVE  Contract!Open
<1> DEFINE m == WithTerms(NoMandate, p)
<1>1. TypeOK /\ NoMandate \in MandateType /\ NoMandate.pulls = 0 /\ NoMandate.recorded = 0
      /\ NoMandate.credit = 0
  BY DEF BillingInv, NoMandate, MandateType, Statuses, BillingTypes
<1>2. /\ mandate' = [m EXCEPT !.status = "Active", !.expiry = ExpiryOf(plans[p]),
                              !.nextDue = FirstDue(plans[p])]
      /\ mandate.status = "Absent" /\ UNCHANGED <<now, received>>
  BY DEF Subscribe, money
<1>3. m \in MandateType /\ m.pulls = 0 /\ m.recorded = 0 /\ m.credit = 0
  BY <1>1, TermsTaken
<1> HIDE DEF m
<1>4. /\ mandate'.status = "Active" /\ mandate'.pulls = 0 /\ mandate'.recorded = 0
      /\ mandate'.credit = 0
  BY <1>2, <1>3 DEF MandateType
<1>5. mandate.pulls = 0 /\ mandate.recorded = 0 /\ mandate.credit = 0
  BY <1>2 DEF HistoryInv, Fresh, ConsentInv
<1> QED
  BY <1>2, <1>4, <1>5 DEF Contract!Open

LEMMA PullBills ==
  ASSUME BillingInv, BillingInv', ConsentInv, NEW who \in Signers, ExecutePull(who)
  PROVE  Contract!Bill
<1> DEFINE m     == Effective(mandate)
           price == Base(m)
           used  == Least(price, mandate.credit)
<1>1. /\ mandate.status = "Active" /\ mandate.recorded = mandate.pulls
      /\ IsDue(mandate) /\ mandate' = Pulled(m, used) /\ Charge(price - used)
      /\ UNCHANGED <<now, consented>>
  BY DEF ExecutePull
<1>2. /\ mandate.credit \in Nat /\ approval.amount \in Nat /\ mandate.nextDue \in Nat
      /\ now \in Nat /\ consented \in Nat /\ received \in Nat
  BY FieldTypes DEF BillingInv, TypeOK
<1>3. /\ m \in MandateType /\ m.frequency \in Nat /\ m.frequency # 0
      /\ m.nextDue = mandate.nextDue /\ m.credit = mandate.credit
      /\ m.pulls = mandate.pulls /\ m.recorded = mandate.recorded
  <2>1. m.recorded = mandate.recorded
    BY DEF Effective, WithTerms, MandateType, BillingInv, TypeOK
  <2> QED
    BY <1>1, <2>1, EffectiveTerms DEF MandateType
<1>4. price \in Nat /\ price <= consented
  BY <1>2, <1>3, PullConsent DEF Base, MandateType
<1>5. used \in Nat /\ used = Contract!Least(price, mandate.credit)
  BY <1>2, <1>4 DEF Least, Contract!Least
<1>6. received' = received + (price - used)
  BY <1>1 DEF Charge
<1> HIDE DEF m, price, used
<1>7. /\ mandate'.pulls = mandate.pulls + 1 /\ mandate'.credit = mandate.credit - used
      /\ mandate'.nextDue = mandate.nextDue + m.frequency
      /\ mandate'.recorded \in {mandate.recorded, mandate.pulls + 1}
  BY <1>1, <1>3 DEF Pulled, MandateType
<1>8. mandate'.nextDue > mandate.nextDue /\ mandate.nextDue <= now
  BY <1>1, <1>2, <1>3, <1>7 DEF IsDue
<1>9. /\ price \in 0 .. consented
      /\ mandate'.credit = mandate.credit - Contract!Least(price, mandate.credit)
      /\ received' = received + price - Contract!Least(price, mandate.credit)
  BY <1>2, <1>4, <1>5, <1>6, <1>7
<1> QED
  BY <1>1, <1>7, <1>8, <1>9 DEF Contract!Bill

\* A change of plan, now or at the next due pull, is a new agreement.
LEMMA PlanChangeAmends ==
  ASSUME BillingInv, ConsentInv, NEW who \in Signers, NEW p \in PlanIds,
         UpdateMandatePlan(who, p) \/ SchedulePlanChange(who, p)
  PROVE  Contract!Amend
<1>1. /\ mandate \in MandateType /\ mandate.credit \in Nat /\ mandate.frequency # 0 /\ TypeOK
      /\ mandate.status = "Active" /\ plans[p].amount \in Nat
  BY FieldTypes, TermTypes DEF BillingInv, TypeOK, Tied, UpdateMandatePlan, SchedulePlanChange
<1>2. consented <= consented'
  BY SignatureCovers DEF UpdateMandatePlan, SchedulePlanChange
<1>3. received' = received /\ now' = now
  BY PlanChangeMovesNothing DEF UpdateMandatePlan, SchedulePlanChange, money
<1>4. /\ mandate'.status = "Active" /\ mandate'.nextDue = mandate.nextDue
      /\ mandate'.pulls = mandate.pulls /\ mandate'.recorded = mandate.recorded
      /\ mandate'.credit >= mandate.credit
  <2>1. CASE SchedulePlanChange(who, p)
    BY <1>1, <2>1 DEF SchedulePlanChange, MandateType
  <2>2. CASE UpdateMandatePlan(who, p)
    <3> DEFINE taken == WithTerms(mandate, p)
               delta == Proration(mandate, plans[p].amount)
               extra == IF delta < 0 THEN -delta ELSE 0
    <3>1. mandate' = [taken EXCEPT !.credit = @ + extra]
      BY <2>2 DEF UpdateMandatePlan
    <3>2. /\ taken \in MandateType /\ taken.status = "Active"
          /\ taken.nextDue = mandate.nextDue /\ taken.pulls = mandate.pulls
          /\ taken.recorded = mandate.recorded /\ taken.credit = mandate.credit
      BY <1>1, TermsTaken
    <3>3. delta \in Int
      BY <1>1, ProrationValue
    <3>4. extra \in Nat
      BY <3>3
    <3> HIDE DEF taken, delta, extra
    <3> QED
      BY <1>1, <3>1, <3>2, <3>4 DEF MandateType
  <2> QED
    BY <2>1, <2>2
<1> QED
  BY <1>1, <1>2, <1>3, <1>4 DEF Contract!Amend

\* The other instructions record the last pull, end the subscription, pass the
\* time, or do nothing the parties can see.
LEMMA OthersKeepContract ==
  ASSUME BillingInv,
         \/ \E verdict \in Verdicts : RequestValidation(verdict)
         \/ \E r \in reports, charge \in Charges : RequestUsageComputation(r, charge)
         \/ RequestBillingRecord
         \/ \E c \in queued : Answer(c)
         \/ \E who \in Signers : \/ SubmitUsageReport(who) \/ CancelPlanChange(who)
                                 \/ Cancel(who) \/ AdminCancel(who) \/ CloseMandate(who)
         \/ \E who \in Signers, p \in PlanIds, revision \in Revisions :
              UpdatePlan(who, p, revision) \/ UpdateUsagePlan(who, p, revision)
         \/ \E amount \in Deposits : Fund(amount)
         \/ \E flag \in BOOLEAN : SetPaused(flag) \/ SetTokenEnabled(flag)
         \/ Tick
         \/ UNCHANGED vars
  PROVE  [Contract!Next]_(Contract!vars)
<1>1. mandate \in MandateType /\ now \in Nat
  BY FieldTypes DEF BillingInv, TypeOK
<1>2. CASE \/ \E verdict \in Verdicts : RequestValidation(verdict)
           \/ \E r \in reports, charge \in Charges : RequestUsageComputation(r, charge)
           \/ RequestBillingRecord
  <2>1. /\ UNCHANGED <<now, received, consented>>
        /\ \/ mandate' = [mandate EXCEPT !.vNonce = @ + 1]
           \/ mandate' = [mandate EXCEPT !.bNonce = @ + 1]
    BY <1>2 DEF RequestValidation, RequestUsageComputation, RequestBillingRecord, money, ghosts
  <2> QED
    BY <1>1, <2>1 DEF MandateType, Contract!vars
<1>3. ASSUME NEW c \in queued, Answer(c) PROVE [Contract!Next]_(Contract!vars)
  <2>1. CASE RecordBillingEventCallback(c)
    <3>1. /\ mandate' = [mandate EXCEPT !.recorded = mandate.pulls]
          /\ UNCHANGED <<now, received, consented>>
      BY <2>1 DEF RecordBillingEventCallback, money
    <3>2. Contract!Record
      BY <1>1, <3>1 DEF MandateType, Contract!Record
    <3> QED
      BY <3>2 DEF Contract!Next
  <2>2. CASE ValidateMandateCallback(c) \/ \E r \in reports : UsageComputationCallback(c, r)
    BY <2>2 DEF ValidateMandateCallback, UsageComputationCallback, money, Contract!vars
  <2> QED
    BY <1>3, <2>1, <2>2 DEF Answer
<1>4. ASSUME NEW who \in Signers, Cancel(who) \/ AdminCancel(who) \/ CloseMandate(who)
      PROVE  Contract!End
  <2>1. /\ \E s \in {"Cancelled", "Closed"} : mandate' = [mandate EXCEPT !.status = s]
        /\ UNCHANGED <<now, received, consented>>
    BY <1>4 DEF Cancel, AdminCancel, CancelMandate, CloseMandate, money, ghosts
  <2> QED
    BY <1>1, <2>1 DEF MandateType, Contract!End
<1>5. ASSUME Tick PROVE Contract!Pass
  BY <1>1, <1>5 DEF Tick, money, ghosts, Contract!Pass
<1>6. ASSUME \/ \E who \in Signers : SubmitUsageReport(who) \/ CancelPlanChange(who)
             \/ \E who \in Signers, p \in PlanIds, revision \in Revisions :
                  UpdatePlan(who, p, revision) \/ UpdateUsagePlan(who, p, revision)
             \/ \E amount \in Deposits : Fund(amount)
             \/ \E flag \in BOOLEAN : SetPaused(flag) \/ SetTokenEnabled(flag)
             \/ UNCHANGED vars
      PROVE  UNCHANGED Contract!vars
  <2>1. /\ UNCHANGED <<now, received, consented>>
        /\ \/ mandate' = mandate
           \/ mandate' = [mandate EXCEPT !.pendingPlan = NoPlan, !.pendingAt = 0]
    BY <1>6 DEF SubmitUsageReport, CancelPlanChange, UpdatePlan, UpdateUsagePlan, Fund,
                SetPaused, SetTokenEnabled, vars, money, ghosts
  <2> QED
    BY <1>1, <2>1 DEF MandateType, Contract!vars
<1> QED
  BY <1>2, <1>3, <1>4, <1>5, <1>6 DEF Contract!Next

LEMMA StepKeepsContract ==
  ASSUME BillingInv, HistoryInv, ConsentInv, [Next]_vars
  PROVE  [Contract!Next]_(Contract!vars)
<1>0. BillingInv'
  BY StepKeeps
<1>1. ASSUME NEW p \in PlanIds, Subscribe(p) PROVE Contract!Open
  BY <1>1, SubscribeOpens
<1>2. ASSUME NEW who \in Signers, ExecutePull(who) PROVE Contract!Bill
  BY <1>0, <1>2, PullBills
<1>3. ASSUME NEW who \in Signers, NEW p \in PlanIds,
             UpdateMandatePlan(who, p) \/ SchedulePlanChange(who, p)
      PROVE  Contract!Amend
  BY <1>3, PlanChangeAmends
<1>4. CASE \/ \E verdict \in Verdicts : RequestValidation(verdict)
           \/ \E r \in reports, charge \in Charges : RequestUsageComputation(r, charge)
           \/ RequestBillingRecord
           \/ \E c \in queued : Answer(c)
           \/ \E who \in Signers : \/ SubmitUsageReport(who) \/ CancelPlanChange(who)
                                   \/ Cancel(who) \/ AdminCancel(who) \/ CloseMandate(who)
           \/ \E who \in Signers, p \in PlanIds, revision \in Revisions :
                UpdatePlan(who, p, revision) \/ UpdateUsagePlan(who, p, revision)
           \/ \E amount \in Deposits : Fund(amount)
           \/ \E flag \in BOOLEAN : SetPaused(flag) \/ SetTokenEnabled(flag)
           \/ Tick
           \/ UNCHANGED vars
  BY <1>4, OthersKeepContract
<1> QED
  BY <1>1, <1>2, <1>3, <1>4 DEF Next, Contract!Next

\* The subscription implements RecurringPayment: money moves only when a
\* period falls due, once for each due date, after the record of the previous
\* payment, and never more than the subscriber signed for - as long as no cap
\* rises, for the reason given above.
THEOREM SubscriptionKeepsContract == Spec /\ CapsNeverRise => ImplementsContract
<1>1. Init => Contract!Init
  BY DEF Init, NoMandate, Contract!Init
<1>2. BillingInv /\ HistoryInv /\ ConsentInv /\ [Next]_vars => [Contract!Next]_(Contract!vars)
  BY StepKeepsContract
<1> QED
  BY <1>1, <1>2, BillingInvariant, HistoryInvariant, ConsentHolds, PTL
     DEF Spec, ImplementsContract, Contract!Spec

\* What all pulls together took is at most their number times the highest
\* amount the subscriber signed for.
TakenWithinConsent == received <= mandate.pulls * consented

\* The same promise summed up: nothing but pulls takes money, each at most the
\* amount signed for by then, and a signature only adds.
THEOREM TotalWithinConsent == Spec /\ CapsNeverRise => []TakenWithinConsent
<1>1. Init => TakenWithinConsent
  BY DEF Init, NoMandate, TakenWithinConsent
<1>2. ASSUME BillingInv, HistoryInv, ConsentInv, TakenWithinConsent, [Next]_vars
      PROVE  TakenWithinConsent'
  <2>1. /\ BillingInv' /\ [Contract!Next]_(Contract!vars)
    BY <1>2, StepKeeps, StepKeepsContract
  <2>2. /\ mandate.pulls \in Nat /\ consented \in Nat /\ received \in Nat /\ mandate.credit \in Nat
        /\ mandate'.pulls \in Nat /\ consented' \in Nat /\ received' \in Nat
    BY <1>2, <2>1, FieldTypes DEF BillingInv, TypeOK, MandateType
  <2>3. received <= mandate.pulls * consented
    BY <1>2 DEF TakenWithinConsent
  <2>4. CASE Contract!Open
    <3>1. mandate.pulls = 0 /\ mandate'.pulls = 0 /\ received' = received
      BY <2>4 DEF Contract!Open
    <3>2. received = 0
      BY <2>2, <2>3, <3>1
    <3>3. mandate'.pulls * consented' \in Nat
      BY <2>2
    <3> QED
      BY <3>1, <3>2, <3>3 DEF TakenWithinConsent
  <2>5. CASE Contract!Bill
    <3>1. mandate'.pulls = mandate.pulls + 1 /\ consented' = consented
      BY <2>5 DEF Contract!Bill
    <3>2. received' <= received + consented
      BY <2>2, <2>5 DEF Contract!Bill, Contract!Least
    <3>3. (mandate.pulls + 1) * consented = mandate.pulls * consented + consented
      BY <2>2
    <3>4. mandate.pulls * consented \in Nat
      BY <2>2
    <3> QED
      BY <2>2, <2>3, <3>1, <3>2, <3>3, <3>4 DEF TakenWithinConsent
  <2>6. CASE Contract!Amend
    <3>1. mandate'.pulls = mandate.pulls /\ received' = received /\ consented' >= consented
      BY <2>6 DEF Contract!Amend
    <3>2. mandate.pulls * consented <= mandate.pulls * consented'
      BY <2>2, <3>1
    <3>3. mandate.pulls * consented \in Nat /\ mandate.pulls * consented' \in Nat
      BY <2>2
    <3> QED
      BY <2>2, <2>3, <3>1, <3>2, <3>3 DEF TakenWithinConsent
  <2>7. CASE \/ Contract!Record \/ Contract!End \/ Contract!Pass
             \/ UNCHANGED Contract!vars
    <3>1. mandate'.pulls = mandate.pulls /\ received' = received /\ consented' = consented
      BY <2>7 DEF Contract!Record, Contract!End, Contract!Pass, Contract!vars
    <3> QED
      BY <2>3, <3>1 DEF TakenWithinConsent
  <2> QED
    BY <2>1, <2>4, <2>5, <2>6, <2>7 DEF Contract!Next
<1>3. BillingInv /\ HistoryInv /\ ConsentInv /\ TakenWithinConsent /\ [Next]_vars
        => TakenWithinConsent'
  BY <1>2
<1> QED
  BY <1>1, <1>3, BillingInvariant, HistoryInvariant, ConsentHolds, PTL DEF Spec
------------------------------------------------------------------------------
(* What a usage pull pays.  The program binds an approval to a period by its  *)
(* bounds alone, so an approval of a flat mandate is told from a computed one *)
(* only by the length of its period.                                          *)

\* The frequencies plans of a type ever have.
Cadences(type) ==
  {FirstTerms[p].frequency : p \in {q \in PlanIds : FirstTerms[q].type = type}}
    \cup {r.frequency : r \in {q \in Revisions : q.type = type}}

\* No flat plan of the merchant has the frequency of one of its usage plans.
CadencesApart == Cadences("Flat") \cap Cadences("Usage") = {}

Computed(a, g) == g.flow = "UsageComputation" /\ g.subject = a.start /\ g.result = a.amount

\* The inductive invariant: periods are those of a plan of the mandate's type,
\* and an approval was computed, or covers a flat plan's period.
Origins ==
  /\ mandate.status # "Absent" => mandate.frequency \in Cadences(mandate.type)
  /\ \A p \in PlanIds : plans[p].frequency \in Cadences(plans[p].type)
  /\ approval.approved => \/ Computed(approval, grantedBy)
                          \/ approval.end - approval.start \in Cadences("Flat")

\* Instructions that leave the mandate's terms and the plans alone, and at most
\* take the approval away.
LEMMA OriginsQuiet ==
  ASSUME Origins, UNCHANGED plans,
         \/ UNCHANGED <<approval, grantedBy>>
         \/ ~approval'.approved,
         /\ mandate'.type = mandate.type /\ mandate'.frequency = mandate.frequency
         /\ mandate'.status # "Absent" => mandate.status # "Absent"
  PROVE  Origins'
<1>1. /\ mandate.status # "Absent" => mandate.frequency \in Cadences(mandate.type)
      /\ \A p \in PlanIds : plans[p].frequency \in Cadences(plans[p].type)
      /\ approval.approved => \/ Computed(approval, grantedBy)
                              \/ approval.end - approval.start \in Cadences("Flat")
  BY DEF Origins
<1>2. mandate'.status # "Absent" => mandate'.frequency \in Cadences(mandate'.type)
  BY <1>1
<1>3. \A p \in PlanIds : plans'[p].frequency \in Cadences(plans'[p].type)
  BY <1>1
<1>4. approval'.approved => \/ Computed(approval', grantedBy')
                            \/ approval'.end - approval'.start \in Cadences("Flat")
  BY <1>1
<1> QED
  BY <1>2, <1>3, <1>4 DEF Origins, Computed, Cadences

\* A mandate that takes a plan's terms takes its type and its frequency.
LEMMA TermsTogether ==
  ASSUME BillingInv, Origins, NEW m \in MandateType, NEW p \in PlanIds
  PROVE  WithTerms(m, p).frequency \in Cadences(WithTerms(m, p).type)
<1>1. WithTerms(m, p).type = plans[p].type /\ WithTerms(m, p).frequency = plans[p].frequency
  BY DEF WithTerms, MandateType
<1> QED
  BY <1>1 DEF Origins

\* Instructions that change the mandate's terms.
LEMMA OriginsOfTerms ==
  ASSUME Origins, UNCHANGED plans,
         UNCHANGED <<approval, grantedBy>> \/ ~approval'.approved,
         mandate'.frequency \in Cadences(mandate'.type)
  PROVE  Origins'
<1>1. \A p \in PlanIds : plans'[p].frequency \in Cadences(plans'[p].type)
  BY DEF Origins
<1>2. approval'.approved => \/ Computed(approval', grantedBy')
                            \/ approval'.end - approval'.start \in Cadences("Flat")
  BY DEF Origins
<1> QED
  BY <1>1, <1>2 DEF Origins, Computed, Cadences
LEMMA SubscribeOrigins ==
  ASSUME BillingInv, Origins, NEW p \in PlanIds, Subscribe(p)
  PROVE  Origins'
<1> DEFINE m == WithTerms(NoMandate, p)
<1>1. TypeOK /\ NoMandate \in MandateType
  BY DEF BillingInv, NoMandate, MandateType, Statuses, BillingTypes
<1>2. /\ mandate' = [m EXCEPT !.status = "Active", !.expiry = ExpiryOf(plans[p]),
                              !.nextDue = FirstDue(plans[p])]
      /\ UNCHANGED <<plans, approval, grantedBy>>
  BY DEF Subscribe
<1>3. m \in MandateType /\ m.frequency \in Cadences(m.type)
  BY <1>1, TermsTaken, TermsTogether
<1> HIDE DEF m
<1>4. mandate'.type = m.type /\ mandate'.frequency = m.frequency
  BY <1>2, <1>3 DEF MandateType
<1> QED
  BY <1>2, <1>3, <1>4, OriginsOfTerms

LEMMA PlanChangeOrigins ==
  ASSUME BillingInv, Origins, NEW who \in Signers, NEW p \in PlanIds,
         UpdateMandatePlan(who, p)
  PROVE  Origins'
<1> DEFINE taken == WithTerms(mandate, p)
           delta == Proration(mandate, plans[p].amount)
           extra == IF delta < 0 THEN -delta ELSE 0
<1>1. /\ TypeOK /\ mandate \in MandateType /\ plans' = plans
      /\ mandate' = [taken EXCEPT !.credit = @ + extra]
      /\ UNCHANGED <<approval, grantedBy>> \/ approval' = NoApproval
  BY DEF BillingInv, TypeOK, UpdateMandatePlan
<1>2. taken \in MandateType /\ taken.frequency \in Cadences(taken.type)
  BY <1>1, TermsTaken, TermsTogether
<1> HIDE DEF taken, delta, extra
<1>3. mandate'.type = taken.type /\ mandate'.frequency = taken.frequency
  BY <1>1, <1>2 DEF MandateType
<1> QED
  BY <1>1, <1>2, <1>3, OriginsOfTerms, EmptyApprovals

\* A revision gives a plan a frequency of a revision of its type.
LEMMA RevisionOrigins ==
  ASSUME BillingInv, Origins, NEW who \in Signers, NEW p \in PlanIds,
         NEW revision \in Revisions,
         UpdatePlan(who, p, revision) \/ UpdateUsagePlan(who, p, revision)
  PROVE  Origins'
<1>1. plans \in [PlanIds -> PlanTerms]
  BY DEF BillingInv, TypeOK
<1>2. UNCHANGED <<mandate, approval, grantedBy>>
  BY DEF UpdatePlan, UpdateUsagePlan, ghosts
<1>3. revision.frequency \in Cadences(revision.type)
  BY DEF Cadences
<1>4. ASSUME NEW q \in PlanIds PROVE plans'[q].frequency \in Cadences(plans'[q].type)
  <2>1. plans[q].frequency \in Cadences(plans[q].type)
    BY DEF Origins
  <2>2. CASE q # p
    BY <1>1, <2>1, <2>2 DEF UpdatePlan, UpdateUsagePlan
  <2>3. CASE q = p
    <3>1. plans'[p].type = revision.type /\ plans'[p].frequency = revision.frequency
      <4>1. CASE UpdatePlan(who, p, revision)
        BY <1>1, <4>1 DEF UpdatePlan, PlanTerms
      <4>2. CASE UpdateUsagePlan(who, p, revision)
        BY <1>1, <4>2 DEF UpdateUsagePlan, PlanTerms
      <4> QED
        BY <4>1, <4>2
    <3> QED
      BY <1>3, <2>3, <3>1
  <2> QED
    BY <2>2, <2>3
<1> QED
  BY <1>2, <1>4 DEF Origins, Computed, Cadences

\* A callback approves the current period: a flat one, or one computed.
LEMMA AnswerOrigins ==
  ASSUME BillingInv, Origins, NEW c \in queued, Answer(c)
  PROVE  Origins'
<1>1. /\ mandate \in MandateType /\ mandate.nextDue \in Nat /\ mandate.frequency \in Nat
  BY FieldTypes DEF BillingInv, TypeOK
<1>2. ASSUME ValidateMandateCallback(c) PROVE Origins'
  <2>1. /\ mandate.status = "Active" /\ mandate.type = "Flat" /\ UNCHANGED <<plans, mandate>>
        /\ approval' = Approve(mandate, c.result = 1, mandate.amount)
    BY <1>2 DEF ValidateMandateCallback
  <2>2. approval'.end = mandate.nextDue /\ approval'.start = mandate.nextDue - mandate.frequency
    BY <2>1 DEF Approve, PeriodStart, PeriodEnd
  <2>3. approval'.end - approval'.start = mandate.frequency
    BY <1>1, <2>2
  <2>4. approval'.end - approval'.start \in Cadences("Flat")
    BY <2>1, <2>3 DEF Origins
  <2> QED
    BY <2>1, <2>4 DEF Origins, Computed, Cadences
<1>3. ASSUME NEW r \in reports, UsageComputationCallback(c, r) PROVE Origins'
  <2>1. /\ UNCHANGED <<plans, mandate>> /\ grantedBy' = c
        /\ c.flow = "UsageComputation" /\ c.subject = r.start /\ r.start = PeriodStart(mandate)
        /\ approval' = Approve(mandate, TRUE, c.result)
    BY <1>3 DEF UsageComputationCallback, Awaited, IsCurrent
  <2>2. approval'.start = PeriodStart(mandate) /\ approval'.amount = c.result
    BY <2>1 DEF Approve
  <2>3. Computed(approval', grantedBy')
    BY <2>1, <2>2 DEF Computed
  <2> QED
    BY <2>1, <2>3 DEF Origins, Computed, Cadences
<1>4. ASSUME RecordBillingEventCallback(c) PROVE Origins'
  <2>1. /\ mandate' = [mandate EXCEPT !.recorded = mandate.pulls]
        /\ UNCHANGED <<plans, approval, grantedBy>>
    BY <1>4 DEF RecordBillingEventCallback
  <2>2. /\ mandate'.type = mandate.type /\ mandate'.frequency = mandate.frequency
        /\ mandate'.status = mandate.status
    BY <1>1, <2>1 DEF MandateType
  <2> QED
    BY <2>1, <2>2, OriginsQuiet
<1> QED
  BY <1>2, <1>3, <1>4 DEF Answer

\* A usage pull needs an approval of its period, whose length no flat plan has.
LEMMA PullOrigins ==
  ASSUME BillingInv, Origins, NEW who \in Signers, ExecutePull(who)
  PROVE  /\ Origins'
         /\ CadencesApart /\ mandate.type = "Usage" => Computed(approval, grantedBy)
<1> DEFINE m    == Effective(mandate)
           used == Least(Base(m), mandate.credit)
<1>1. /\ mandate.status = "Active" /\ mandate' = Pulled(m, used)
      /\ approval' = NoApproval /\ plans' = plans /\ ApprovalStands(mandate)
  BY DEF ExecutePull
<1>2. /\ mandate \in MandateType /\ mandate.nextDue \in Nat /\ mandate.frequency \in Nat
      /\ mandate.pendingPlan \in PlanIds \cup {NoPlan}
  BY FieldTypes DEF BillingInv, TypeOK
<1>3. m \in MandateType
  BY <1>1, EffectiveTerms
<1>4. m.frequency \in Cadences(m.type)
  <2>1. CASE ChangeIsDue(mandate)
    BY <1>2, <2>1, TermsTogether DEF Effective, ChangeIsDue
  <2>2. CASE ~ChangeIsDue(mandate)
    BY <1>1, <2>2 DEF Effective, Origins
  <2> QED
    BY <2>1, <2>2
<1> HIDE DEF m, used
<1>5. mandate'.type = m.type /\ mandate'.frequency = m.frequency
  BY <1>1, <1>3 DEF Pulled, MandateType
<1>6. Origins'
  BY <1>1, <1>4, <1>5, OriginsOfTerms, EmptyApprovals
<1>7. /\ approval.approved /\ approval.end = mandate.nextDue
      /\ approval.start = mandate.nextDue - mandate.frequency
  BY <1>1 DEF ApprovalStands, PeriodStart, PeriodEnd
<1>8. approval.end - approval.start = mandate.frequency
  BY <1>2, <1>7
<1>9. mandate.frequency \in Cadences(mandate.type)
  BY <1>1 DEF Origins
<1>10. ASSUME CadencesApart, mandate.type = "Usage" PROVE Computed(approval, grantedBy)
  BY <1>7, <1>8, <1>9, <1>10 DEF Origins, CadencesApart
<1> QED
  BY <1>6, <1>10

LEMMA OthersOrigins ==
  ASSUME BillingInv, Origins,
         \/ \E verdict \in Verdicts : RequestValidation(verdict)
         \/ \E r \in reports, charge \in Charges : RequestUsageComputation(r, charge)
         \/ RequestBillingRecord
         \/ \E who \in Signers : \/ SubmitUsageReport(who) \/ CancelPlanChange(who)
                                 \/ Cancel(who) \/ AdminCancel(who) \/ CloseMandate(who)
         \/ \E who \in Signers, p \in PlanIds : SchedulePlanChange(who, p)
         \/ \E amount \in Deposits : Fund(amount)
         \/ \E flag \in BOOLEAN : SetPaused(flag) \/ SetTokenEnabled(flag)
         \/ Tick
         \/ UNCHANGED vars
  PROVE  Origins'
<1>1. mandate \in MandateType
  BY DEF BillingInv, TypeOK
<1>2. /\ UNCHANGED plans
      /\ UNCHANGED <<approval, grantedBy>> \/ approval' = Reset
      /\ \/ mandate' = mandate
         \/ mandate.status # "Absent" /\ mandate' = [mandate EXCEPT !.vNonce = @ + 1]
         \/ mandate.status # "Absent" /\ mandate' = [mandate EXCEPT !.bNonce = @ + 1]
         \/ /\ mandate.status # "Absent"
            /\ \E s \in {"Cancelled", "Closed"} : mandate' = [mandate EXCEPT !.status = s]
         \/ /\ mandate.status # "Absent"
            /\ \E q, t : mandate' = [mandate EXCEPT !.pendingPlan = q, !.pendingAt = t]
  <2>1. CASE \/ \E verdict \in Verdicts : RequestValidation(verdict)
             \/ \E r \in reports, charge \in Charges : RequestUsageComputation(r, charge)
             \/ RequestBillingRecord
    BY <2>1 DEF RequestValidation, RequestUsageComputation, RequestBillingRecord, Exists, ghosts
  <2>2. CASE \E who \in Signers : Cancel(who) \/ AdminCancel(who) \/ CloseMandate(who)
    BY <2>2 DEF Cancel, AdminCancel, CancelMandate, CloseMandate, ghosts
  <2>3. CASE \E who \in Signers : \/ CancelPlanChange(who)
                                  \/ \E p \in PlanIds : SchedulePlanChange(who, p)
    BY <2>3 DEF CancelPlanChange, SchedulePlanChange, ghosts
  <2>4. CASE \/ \E who \in Signers : SubmitUsageReport(who)
             \/ \E amount \in Deposits : Fund(amount)
             \/ \E flag \in BOOLEAN : SetPaused(flag) \/ SetTokenEnabled(flag)
             \/ Tick
             \/ UNCHANGED vars
    BY <2>4 DEF SubmitUsageReport, Fund, SetPaused, SetTokenEnabled, Tick, vars, ghosts
  <2> QED
    BY <2>1, <2>2, <2>3, <2>4
<1>3. /\ mandate'.type = mandate.type /\ mandate'.frequency = mandate.frequency
      /\ mandate'.status # "Absent" => mandate.status # "Absent"
  BY <1>1, <1>2 DEF MandateType
<1> QED
  BY <1>2, <1>3, OriginsQuiet, EmptyApprovals

LEMMA StepOrigins ==
  ASSUME BillingInv, Origins, [Next]_vars
  PROVE  Origins'
<1>1. ASSUME NEW p \in PlanIds, Subscribe(p) PROVE Origins'
  BY <1>1, SubscribeOrigins
<1>2. ASSUME NEW c \in queued, Answer(c) PROVE Origins'
  BY <1>2, AnswerOrigins
<1>3. ASSUME NEW who \in Signers, ExecutePull(who) PROVE Origins'
  BY <1>3, PullOrigins
<1>4. ASSUME NEW who \in Signers, NEW p \in PlanIds, UpdateMandatePlan(who, p)
      PROVE  Origins'
  BY <1>4, PlanChangeOrigins
<1>5. ASSUME NEW who \in Signers, NEW p \in PlanIds, NEW revision \in Revisions,
             UpdatePlan(who, p, revision) \/ UpdateUsagePlan(who, p, revision)
      PROVE  Origins'
  BY <1>5, RevisionOrigins
<1>6. CASE \/ \E verdict \in Verdicts : RequestValidation(verdict)
           \/ \E r \in reports, charge \in Charges : RequestUsageComputation(r, charge)
           \/ RequestBillingRecord
           \/ \E who \in Signers : \/ SubmitUsageReport(who) \/ CancelPlanChange(who)
                                   \/ Cancel(who) \/ AdminCancel(who) \/ CloseMandate(who)
           \/ \E who \in Signers, p \in PlanIds : SchedulePlanChange(who, p)
           \/ \E amount \in Deposits : Fund(amount)
           \/ \E flag \in BOOLEAN : SetPaused(flag) \/ SetTokenEnabled(flag)
           \/ Tick
           \/ UNCHANGED vars
  BY <1>6, OthersOrigins
<1> QED
  BY <1>1, <1>2, <1>3, <1>4, <1>5, <1>6 DEF Next

LEMMA OriginsHold == Spec => []Origins
<1>1. ASSUME Init PROVE Origins
  <2>1. \A p \in PlanIds : plans[p].frequency \in Cadences(plans[p].type)
    BY <1>1 DEF Init, Cadences
  <2> QED
    BY <1>1, <2>1, EmptyApprovals DEF Init, Origins, NoMandate
<1>2. BillingInv /\ Origins /\ [Next]_vars => Origins'
  BY StepOrigins
<1> QED
  BY <1>1, <1>2, BillingInvariant, PTL DEF Spec
\* The pull itself: what it adds to the payments.
LEMMA PaysWhatWasComputed ==
  ASSUME UsagePaysComputedCharge, NEW who \in Signers, ExecutePull(who),
         mandate.type = "Usage" => Computed(approval, grantedBy)
  PROVE  UsagePaysComputedCharge'
<1> DEFINE m    == Effective(mandate)
           paid == [pull |-> mandate.pulls + 1, type |-> mandate.type,
                    start |-> PeriodStart(mandate), end |-> PeriodEnd(mandate),
                    base |-> Base(m), grant |-> grantedBy]
<1>1. /\ payments' = payments \cup {paid} /\ ApprovalStands(mandate)
      /\ m.type = mandate.type
  BY DEF ExecutePull
<1>2. /\ paid.type = mandate.type /\ paid.start = PeriodStart(mandate)
      /\ paid.base = Base(m) /\ paid.grant = grantedBy
  OBVIOUS
<1>3. approval.start = PeriodStart(mandate)
  BY <1>1 DEF ApprovalStands
<1>4. mandate.type = "Usage" => Base(m) = approval.amount
  BY <1>1 DEF Base
<1> HIDE DEF m, paid
<1>5. paid.type = "Usage" => /\ paid.grant.flow = "UsageComputation"
                             /\ paid.grant.subject = paid.start
                             /\ paid.base = paid.grant.result
  BY <1>2, <1>3, <1>4 DEF Computed
<1> QED
  BY <1>1, <1>5 DEF UsagePaysComputedCharge

\* Only a pull pays.
LEMMA OnlyPullsPay ==
  ASSUME [Next]_vars
  PROVE  payments' = payments \/ \E who \in Signers : ExecutePull(who)
BY DEF Next, vars, ghosts, Subscribe, RequestValidation, RequestUsageComputation,
       RequestBillingRecord, Answer, ValidateMandateCallback, UsageComputationCallback,
       RecordBillingEventCallback, SubmitUsageReport, CancelPlanChange, Cancel, AdminCancel,
       CancelMandate, CloseMandate, UpdateMandatePlan, SchedulePlanChange, UpdatePlan,
       UpdateUsagePlan, Fund, SetPaused, SetTokenEnabled, Tick

\* A usage pull pays the charge computed from the report of its own period, if
\* no flat plan has the frequency of a usage plan.  With equal frequencies the
\* approval of a flat period still stands after a change to a usage plan, and
\* execute_pull takes its amount for the computed one.
THEOREM PaysComputedWhenApart == CadencesApart => (Spec => []UsagePaysComputedCharge)
<1> SUFFICES ASSUME CadencesApart
             PROVE  Spec => []UsagePaysComputedCharge
  OBVIOUS
<1>1. Init => UsagePaysComputedCharge
  BY DEF Init, UsagePaysComputedCharge
<1>2. ASSUME BillingInv, Origins, UsagePaysComputedCharge, [Next]_vars
      PROVE  UsagePaysComputedCharge'
  <2>1. CASE payments' = payments
    BY <1>2, <2>1 DEF UsagePaysComputedCharge
  <2>2. ASSUME NEW who \in Signers, ExecutePull(who) PROVE UsagePaysComputedCharge'
    BY <1>2, <2>2, PullOrigins, PaysWhatWasComputed
  <2> QED
    BY <1>2, <2>1, <2>2, OnlyPullsPay
<1>3. BillingInv /\ Origins /\ UsagePaysComputedCharge /\ [Next]_vars
        => UsagePaysComputedCharge'
  BY <1>2
<1> QED
  BY <1>1, <1>3, BillingInvariant, OriginsHold, PTL DEF Spec

\* Approvals come from the two callbacks.
LEMMA ApprovalsFromAnswers ==
  ASSUME [Next]_vars
  PROVE  \/ UNCHANGED <<approval, grantedBy>> \/ ~approval'.approved
         \/ \E c \in queued : \/ ValidateMandateCallback(c)
                              \/ \E r \in reports : UsageComputationCallback(c, r)
<1>1. CASE \/ \E p \in PlanIds : Subscribe(p)
           \/ \E verdict \in Verdicts : RequestValidation(verdict)
           \/ \E r \in reports, charge \in Charges : RequestUsageComputation(r, charge)
           \/ RequestBillingRecord
           \/ \E c \in queued : Answer(c)
  BY <1>1, EmptyApprovals DEF Subscribe, RequestValidation, RequestUsageComputation,
     RequestBillingRecord, Answer, RecordBillingEventCallback, ghosts
<1>2. CASE \/ \E who \in Signers : \/ SubmitUsageReport(who) \/ ExecutePull(who)
                                   \/ CancelPlanChange(who)
                                   \/ Cancel(who) \/ AdminCancel(who) \/ CloseMandate(who)
           \/ \E who \in Signers, p \in PlanIds :
                UpdateMandatePlan(who, p) \/ SchedulePlanChange(who, p)
  BY <1>2, EmptyApprovals DEF SubmitUsageReport, ExecutePull, CancelPlanChange, Cancel,
     AdminCancel, CancelMandate, CloseMandate, UpdateMandatePlan, SchedulePlanChange, ghosts
<1>3. CASE \/ \E who \in Signers, p \in PlanIds, revision \in Revisions :
                UpdatePlan(who, p, revision) \/ UpdateUsagePlan(who, p, revision)
           \/ \E amount \in Deposits : Fund(amount)
           \/ \E flag \in BOOLEAN : SetPaused(flag) \/ SetTokenEnabled(flag)
           \/ Tick
           \/ UNCHANGED vars
  BY <1>3 DEF UpdatePlan, UpdateUsagePlan, Fund, SetPaused, SetTokenEnabled, Tick, vars, ghosts
<1> QED
  BY <1>1, <1>2, <1>3 DEF Next

\* A mandate that is billed by usage all its life.
AlwaysUsage == mandate.status # "Absent" => mandate.type = "Usage"

\* Such a mandate pays computed charges only, whatever plans the merchant has:
\* the flat callback refuses it, so no flat approval can stand.
THEOREM UsageMandatePaysComputed == Spec /\ []AlwaysUsage => []UsagePaysComputedCharge
<1> DEFINE Traced == approval.approved => Computed(approval, grantedBy)
<1>1. Init => Traced /\ UsagePaysComputedCharge
  BY EmptyApprovals DEF Init, UsagePaysComputedCharge
<1>2. ASSUME AlwaysUsage, Traced, UsagePaysComputedCharge, [Next]_vars
      PROVE  Traced' /\ UsagePaysComputedCharge'
  <2>1. Traced'
    <3>1. CASE UNCHANGED <<approval, grantedBy>> \/ ~approval'.approved
      BY <1>2, <3>1 DEF Computed
    <3>2. ASSUME NEW c \in queued, ValidateMandateCallback(c) PROVE FALSE
      BY <1>2, <3>2 DEF ValidateMandateCallback, AlwaysUsage
    <3>3. ASSUME NEW c \in queued, NEW r \in reports, UsageComputationCallback(c, r)
          PROVE  Traced'
      <4>1. /\ grantedBy' = c /\ c.flow = "UsageComputation" /\ c.subject = r.start
            /\ r.start = PeriodStart(mandate) /\ approval' = Approve(mandate, TRUE, c.result)
        BY <3>3 DEF UsageComputationCallback, Awaited, IsCurrent
      <4>2. approval'.start = PeriodStart(mandate) /\ approval'.amount = c.result
        BY <4>1 DEF Approve
      <4> QED
        BY <4>1, <4>2 DEF Computed
    <3> QED
      BY <1>2, <3>1, <3>2, <3>3, ApprovalsFromAnswers
  <2>2. UsagePaysComputedCharge'
    <3>1. CASE payments' = payments
      BY <1>2, <3>1 DEF UsagePaysComputedCharge
    <3>2. ASSUME NEW who \in Signers, ExecutePull(who) PROVE UsagePaysComputedCharge'
      <4>1. Computed(approval, grantedBy)
        BY <1>2, <3>2 DEF ExecutePull, ApprovalStands
      <4> QED
        BY <1>2, <3>2, <4>1, PaysWhatWasComputed
    <3> QED
      BY <1>2, <3>1, <3>2, OnlyPullsPay
  <2> QED
    BY <2>1, <2>2
<1>3. AlwaysUsage /\ Traced /\ UsagePaysComputedCharge /\ [Next]_vars
        => Traced' /\ UsagePaysComputedCharge'
  BY <1>2
<1> QED
  BY <1>1, <1>3, PTL DEF Spec
------------------------------------------------------------------------------
(* Records as they are registered: the callback may not write the mandate.      *)

\* With the accounts a record request registers, no answer is accepted.
LEMMA RecordsDoNotFit == ~ExtraWritable => ~AccountsFit("BillingRecord")
<1>1. DeclaredMut("BillingRecord") = {"request", "event", "mandate"}
  BY DEF DeclaredMut
<1>2. RegisteredWritable("BillingRecord") = {"request", "event"}
  BY DEF RegisteredWritable
<1> QED
  BY <1>1, <1>2 DEF AccountsFit

LEMMA OnlyRecordsMakeEvents ==
  ASSUME ~ExtraWritable, [Next]_vars
  PROVE  events' = events
<1>1. ASSUME NEW c \in queued, Answer(c) PROVE events' = events
  <2>1. ~RecordBillingEventCallback(c)
    BY RecordsDoNotFit DEF RecordBillingEventCallback, Awaited
  <2> QED
    BY <1>1, <2>1 DEF Answer, ValidateMandateCallback, UsageComputationCallback
<1>2. CASE \/ \E p \in PlanIds : Subscribe(p)
           \/ \E verdict \in Verdicts : RequestValidation(verdict)
           \/ \E r \in reports, charge \in Charges : RequestUsageComputation(r, charge)
           \/ RequestBillingRecord
  BY <1>2 DEF Subscribe, RequestValidation, RequestUsageComputation, RequestBillingRecord
<1>3. ASSUME NEW who \in Signers,
             \/ SubmitUsageReport(who) \/ CancelPlanChange(who)
             \/ Cancel(who) \/ AdminCancel(who) \/ CloseMandate(who)
      PROVE  events' = events
  BY <1>3 DEF SubmitUsageReport, CancelPlanChange, Cancel, AdminCancel, CancelMandate,
              CloseMandate
<1>4. ASSUME NEW who \in Signers, ExecutePull(who) PROVE events' = events
  BY <1>4 DEF ExecutePull
<1>5. ASSUME NEW who \in Signers, NEW p \in PlanIds,
             UpdateMandatePlan(who, p) \/ SchedulePlanChange(who, p)
      PROVE  events' = events
  BY <1>5 DEF UpdateMandatePlan, SchedulePlanChange
<1>6. ASSUME NEW who \in Signers, NEW p \in PlanIds, NEW revision \in Revisions,
             UpdatePlan(who, p, revision) \/ UpdateUsagePlan(who, p, revision)
      PROVE  events' = events
  BY <1>6 DEF UpdatePlan, UpdateUsagePlan
<1>7. CASE \/ \E amount \in Deposits : Fund(amount)
           \/ \E flag \in BOOLEAN : SetPaused(flag) \/ SetTokenEnabled(flag)
           \/ Tick
           \/ UNCHANGED vars
  BY <1>7 DEF Fund, SetPaused, SetTokenEnabled, Tick, vars
<1> QED
  BY <1>1, <1>2, <1>3, <1>4, <1>5, <1>6, <1>7 DEF Next

\* No BillingEvent is ever stored while the network calls the record callback with
\* the accounts request_billing_record registers.
NoEvents == events = {}
THEOREM NoRecordArrives == ~ExtraWritable => (Spec => []NoEvents)
<1> SUFFICES ASSUME ~ExtraWritable PROVE Spec => []NoEvents
  OBVIOUS
<1>1. Init => NoEvents
  BY DEF Init, NoEvents
<1>2. NoEvents /\ [Next]_vars => NoEvents'
  BY OnlyRecordsMakeEvents DEF NoEvents
<1> QED
  BY <1>1, <1>2, PTL DEF Spec

\* A flat pull is the last pull of its mandate, whatever plans the mandate moves
\* to: execute_pull waits for a record that never comes.
FlatPullIsLast == \A p \in payments : p.type = "Flat" => p.pull = mandate.pulls
THEOREM NothingAfterAFlatPull == ~ExtraWritable => (Spec => []FlatPullIsLast)
<1> SUFFICES ASSUME ~ExtraWritable PROVE Spec => []FlatPullIsLast
  OBVIOUS
<1>1. BillingInv /\ HistoryInv /\ RecordsSequential /\ NoEvents => FlatPullIsLast
  <2> SUFFICES ASSUME BillingInv, HistoryInv, RecordsSequential, NoEvents,
                      NEW p \in payments, p.type = "Flat"
               PROVE  p.pull = mandate.pulls
    BY DEF FlatPullIsLast
  <2>1. mandate.pulls \in Nat /\ mandate.recorded \in Nat
    BY FieldTypes DEF BillingInv, TypeOK
  <2>2. p.pull \in Nat /\ p.pull <= mandate.pulls
    BY DEF HistoryInv, PaymentsBehind
  <2>3. ~(p.pull <= mandate.recorded)
    BY DEF RecordsSequential, NoEvents
  <2> QED
    BY <2>1, <2>2, <2>3 DEF RecordsSequential
<1> QED
  BY <1>1, BillingInvariant, HistoryInvariant, RecordsFollowPulls, NoRecordArrives, PTL
==============================================================================
