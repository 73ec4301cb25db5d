\* Every login message, under every caller, when any allocation may fail.
SPECIFICATION Spec
CONSTANTS
  Catalogue <- AllMessages
  Slot <- AllSlots
  Caller = {"test", "stream"}
  AllocMayFail = TRUE
INVARIANTS
  TypeOK
  NeverOverAsks
  SuccessMeansComplete
  SizeFieldIsWritten
  IncompleteOwnsNothing
  NoWildFree
  NothingLeaked
  ReleasedOwnsNothing
  OwnedIsReleasable
PROPERTY EveryStepCounts
