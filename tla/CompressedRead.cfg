SPECIFICATION FairSpec
CONSTANTS
  Lengths = {1}
  Counts = {0, 1}
  Capacity = 1
  Caller = {"test", "stream"}
  AllocMayFail = FALSE
  Catalogue <- CompressedMembersCatalogue
  Local <- LocalPaths
  Path <- PathOf
  Memory <- MemoryOf
INVARIANTS NeverOverAsks NoWildFree IncompleteOwnsNothing ReleasedOwnsNothing
PROPERTIES EventuallyOver
