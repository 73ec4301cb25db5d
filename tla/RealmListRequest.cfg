\* CMD_REALM_LIST as a client sends it.
SPECIFICATION Spec
CONSTANTS
  Catalogue <- RealmListRequest
  Slot <- AllSlots
  Caller = {"test"}
  AllocMayFail = FALSE
INVARIANTS
  SuccessMeansComplete
