\* Three backend blocks of two, the last one half used; the backend may throw.
SPECIFICATION Spec
CONSTANTS
  BackSize = 3
  PerBlock = 2
  Size = 5
  Item = {a, b}
  BackThrows = TRUE
INVARIANTS TypeOK CachesCoherent
PROPERTIES ImplementsDevice FlushPersists
