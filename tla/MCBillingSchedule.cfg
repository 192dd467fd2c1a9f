SPECIFICATION Spec
CONSTANTS
  basic = basic
  pro = pro
  NoPlan = NoPlan
  PlanIds = {basic, pro}
  FirstTerms <- FlatTerms
  Revisions <- DearerBasic
  Charges = {}
  Verdicts = {1}
  Unlimited = 9
  TTL = 1
  MaxCredit = 2
  Deposits = {4}
  Interrupts = FALSE
  ExtraWritable = FALSE
  MaxFunds = 4
  MaxRequests = 2
  MaxTime = 4
INVARIANT ScheduledChangeCovered
