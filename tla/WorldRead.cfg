\* The messages of all versions, read by the loop of the generated tests; the
\* assumptions of the proofs are evaluated on them.
SPECIFICATION Spec
CONSTANTS
  Lengths = {0, 2}
  Counts = {0, 2}
  Capacity = 1
  Caller = {"test"}
  AllocMayFail = FALSE
  Catalogue <- WorldCatalogue
  Local <- LocalPaths
  Path <- PathOf
  Memory <- MemoryOf
INVARIANTS TypeOK NeverOverAsks SuccessMeansComplete PartialIsNoError
  IncompleteOwnsNothing NoWildFree NothingLeaked ReleasedOwnsNothing SizeFieldIsWritten
PROPERTIES ImplementsAssembly EveryStepCounts
