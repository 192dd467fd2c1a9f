\* Safety: capped and uncapped streams, a clock that may step back, a u64 so
\* small that an unsettled uncapped stream outgrows it; and a keeper that keeps up.
SPECIFICATION FairSpec
CONSTANTS
  Rates = {0, 1, 2}
  Caps <- MCCaps
  Intervals = {1, 2}
  MinSettleInterval = 2
  U64Max = 6
  Deposits = {1, 3}
  MaxFunds = 5
  MaxTime = 4
  ClockStepsBack = TRUE
INVARIANTS
  TypeOK
  NothingLostOrInvented
  LedgerMatchesTokens
  HookAgreesWithSettlement
  NoSecondChargedTwice
  RateWithinConsent
PROPERTIES
  ForfeitsLessThanAnInterval
  ImplementsLedger
  KeeperKeepsUp
