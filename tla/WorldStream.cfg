\* The messages that own memory, from a socket, when any allocation may fail;
\* the discipline of the memory is evaluated on them with failing allocations.
SPECIFICATION Spec
CONSTANTS
  Lengths = {1}
  Counts = {0, 2}
  Capacity = 1
  Caller = {"stream"}
  AllocMayFail = TRUE
  Catalogue <- OwningCatalogue
  Local <- LocalPaths
  Path <- PathOf
  Memory <- MemoryOf
INVARIANTS IncompleteOwnsNothing NoWildFree NothingLeaked ReleasedOwnsNothing
PROPERTY ImplementsAssembly
