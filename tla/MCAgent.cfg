\* Two services and lists, windows that renew on the last instant they can,
\* switches, pacing and minimum amounts; and an agent that keeps asking.
SPECIFICATION FairSpec
CONSTANTS
  api = api
  host = host
  Services = {api, host}
  ServiceLists <- ManyLists
  Limits = {1, 2}
  LifetimeCaps = {3}
  MinPulls = {1}
  Cooldowns = {0, 2}
  Amounts = {0, 1}
  MaxServices = 2
  Window = 2
  Interrupts = TRUE
  MaxFunds = 2
  MaxTime = 3
INVARIANTS
  TypeOK
  WithinLimits
  FullyBacked
  BooksMatch
  AnyDayWithinTwoLimits
PROPERTIES
  DaysRenew
  ImplementsAllowance
