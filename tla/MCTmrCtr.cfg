\* Registers of six values, reads of up to five cycles.
SPECIFICATION Spec
CONSTANTS
  Base = 6
  HiMax = 3
  ReadBound = 5
INVARIANT ReadIsCurrent
PROPERTY Monotone
