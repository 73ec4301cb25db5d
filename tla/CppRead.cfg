\* The messages of both libraries in all versions, one after the other from a connection;
\* the assumption of the proofs holds of each.
SPECIFICATION FairSpec
CONSTANTS
  Lengths = {2}
  Counts = {0, 2}
  Messages = 2
  Cut <- BeforeLastByte
  Path <- PathOf
  Catalogue <- CppCatalogue
INVARIANTS TypeOK ReadsWholeMessages SizeFieldIsWritten CountsWhatItReads InflatedInBounds
  WaitsForItsOwn
PROPERTY EventuallyReturned
\* A read waits, for good when the peer has nothing more to send.
CHECK_DEADLOCK FALSE
