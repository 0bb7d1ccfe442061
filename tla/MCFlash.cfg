\* Transfers and flash commands of every kind, each of which may be abandoned,
\* meet a stall or stay unclosed.
CONSTANTS
  Sectors = 2
  SectorSize = 6
  PageSize = 2
  BlockSize = 4
  CmdLens = {1, 3, 4}
  MaxStalls = 1
  MaxTransfers = 3
SPECIFICATION Spec
CHECK_DEADLOCK FALSE
INVARIANTS Recovers StoredAsSent ReadsBack
PROPERTIES OthersUntouched
