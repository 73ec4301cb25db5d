\* A message whose write function puts too small a size in the header.
SPECIFICATION Spec
CONSTANTS
  Lengths = {0}
  Counts = {0, 2}
  Messages = 2
  Cut <- BeforeLastByte
  Catalogue <- UpdateAccountDataCatalogue
INVARIANT ReadsWholeMessages
\* A read waits, for good when the peer has nothing more to send.
CHECK_DEADLOCK FALSE
