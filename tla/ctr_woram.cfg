\* Words of four bits.  Both halves are written for several rounds before
\* their counters meet, and go on until the counters have wrapped.
SPECIFICATION Spec
CONSTANTS
  Size0 = 3
  Size1 = 2
  Span = 16
  InitialWords = {0, 6}
  BlockBits = 4
  BindSpan = 4
  GetBit <- WordBit
  Truncated = {0}
  Buf = {0, 5}
INVARIANTS WrittenInOrder PadsFresh
PROPERTIES ImplementsPMWoram
