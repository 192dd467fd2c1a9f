SPECIFICATION FairSpec
CONSTANTS
  basic = basic
  pro = pro
  NoPlan = NoPlan
  PlanIds = {basic}
  FirstTerms <- LiveTerms
  Revisions <- NoRevision
  Charges = {0, 2}
  Verdicts = {1}
  Unlimited = 9
  TTL = 1
  MaxCredit = 2
  Deposits = {2}
  Interrupts = FALSE
  ExtraWritable = FALSE
  MaxFunds = 4
  MaxRequests = 6
  MaxTime = 4
PROPERTY KeeperCollects
CHECK_DEADLOCK FALSE
