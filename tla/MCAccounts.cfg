SPECIFICATION Spec
CONSTANTS
  alice = alice
  Subscribers = {alice}
  UsageIds = {0}
  OldPlans <- OldFlat
  OldLayouts = {"Legacy", "Current"}
  MaxPlans = 2
  MaxMandates = 2
  MaxStreams = 1
INVARIANT EveryMandateLoads
INVARIANT CredentialsAccounted
INVARIANT CanAlwaysLeave
PROPERTY NoAddressTwice
