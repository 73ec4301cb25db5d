SPECIFICATION Spec
CONSTANTS
  Lengths = {1}
  Counts = {0, 1}
  Capacity = 1
  Caller = {"test"}
  AllocMayFail = FALSE
  Catalogue <- AuthSessionCatalogue
  Local <- LocalPaths
INVARIANTS NeverOverAsks
