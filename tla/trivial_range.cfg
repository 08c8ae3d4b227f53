\* Callers that pass indices the device does not have.
SPECIFICATION Spec
CONSTANTS
  Size = 4
  Block = {a, b}
  BackThrows = FALSE
INVARIANTS OutOfRangeRefused
