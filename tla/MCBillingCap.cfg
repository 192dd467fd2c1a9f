SPECIFICATION Spec
CONSTANTS
  basic = basic
  pro = pro
  NoPlan = NoPlan
  PlanIds = {basic, pro}
  FirstTerms <- UsageTerms
  Revisions <- HigherCap
  Charges = {0, 2}
  Verdicts = {1}
  Unlimited = 9
  TTL = 1
  MaxCredit = 2
  Deposits = {4}
  Interrupts = FALSE
  ExtraWritable = FALSE
  MaxFunds = 4
  MaxRequests = 2
  MaxTime = 3
INVARIANT WithinConsent
