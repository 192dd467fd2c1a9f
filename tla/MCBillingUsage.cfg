SPECIFICATION Spec
CONSTANTS
  basic = basic
  pro = pro
  NoPlan = NoPlan
  PlanIds = {basic, pro}
  FirstTerms <- ApartTerms
  Revisions <- HigherCap
  Charges = {0, 2}
  Verdicts = {1}
  Unlimited = 9
  TTL = 1
  MaxCredit = 2
  Deposits = {4}
  Interrupts = TRUE
  ExtraWritable = FALSE
  MaxFunds = 4
  MaxRequests = 2
  MaxTime = 4
INVARIANT RecordsSequential
INVARIANT UsagePaysComputedCharge
INVARIANT ReportsSettledByPayment
PROPERTY ImplementsContract
