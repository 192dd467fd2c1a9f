SPECIFICATION FairSpec
CONSTANTS
  basic = basic
  pro = pro
  NoPlan = NoPlan
  PlanIds = {basic}
  FirstTerms <- ThriceTerms
  Revisions <- NoRevision
  Charges = {}
  Verdicts = {1}
  Unlimited = 9
  TTL = 1
  MaxCredit = 2
  Deposits = {1}
  Interrupts = FALSE
  ExtraWritable = FALSE
  MaxFunds = 3
  MaxRequests = 6
  MaxTime = 4
PROPERTY RecordsArrive
CHECK_DEADLOCK FALSE
