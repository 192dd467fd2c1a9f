SPECIFICATION Spec
CONSTANTS
  basic = basic
  pro = pro
  NoPlan = NoPlan
  PlanIds = {basic, pro}
  FirstTerms <- FlatTerms
  Revisions <- DearerBasic
  Charges = {}
  Verdicts = {0, 1}
  Unlimited = 9
  TTL = 1
  MaxCredit = 2
  Deposits = {4}
  Interrupts = FALSE
  ExtraWritable = TRUE
  MaxFunds = 4
  MaxRequests = 2
  MaxTime = 4
INVARIANT TypeOK
INVARIANT RequestsAnsweredOnce
INVARIANT ApprovedMeansDue
INVARIANT NoPeriodPaidTwice
INVARIANT WithinConsent
PROPERTY OnlyPullsCharge
PROPERTY ImplementsContract
