SPECIFICATION Spec
CONSTANTS
  MaxUnits = 5
  U64Max = 54
  TierLists <- AllLists
  RevisedLists <- Rewrites
  Caps = {0, 4, 10, 11}
  Frequencies = {0, 1}
  OldPricings <- BeforeEnvelope
INVARIANT SchedulesStaySound
INVARIANT ChargesEachUnitOnce
INVARIANT CircuitMatchesModel
INVARIANT NothingWraps
