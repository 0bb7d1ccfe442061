\* Reads and uploads of every kind, two after the other.
CONSTANTS
  AddrMod = 128
  Devices <- MCDevices
  FpgaBase = 64
  FpgaBytes = 24
  Texts <- MCTexts
  Requests <- MCRequests
  LineData = 2
  BlockSize = 3
  MaxVersions = 1
  MaxTransfers = 2
  Labelled = TRUE
  WordDigits = 2
  LineBufSize = 5
  MaxBytes = 7
SPECIFICATION Spec
CHECK_DEADLOCK FALSE
INVARIANTS InOrder Complete WordsWhole OwnMemory StoredInPlace LinesStored FailsOnlyWhenFull
