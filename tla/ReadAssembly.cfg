\* The reads implement MessageAssembly, and end; the assumptions of the
\* proofs hold of every login message, and the invariant the proofs use
\* holds on the early ones.
SPECIFICATION FairSpec
CONSTANTS
  Catalogue <- AssemblyMessages
  Slot <- AllSlots
  Caller = {"test", "stream"}
  AllocMayFail = FALSE
  At <- Offsets
INVARIANT MemoryInv
PROPERTY ImplementsAssembly
