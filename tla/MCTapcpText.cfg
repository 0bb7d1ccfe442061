\* ASCII uploads whose lines need not have labels.
CONSTANTS
  AddrMod = 128
  Devices <- MCDevices
  FpgaBase = 64
  FpgaBytes = 24
  Texts <- MCTexts
  Requests <- MCUploads
  LineData = 2
  BlockSize = 3
  MaxVersions = 0
  MaxTransfers = 1
  Labelled = FALSE
  WordDigits = 2
  LineBufSize = 5
  MaxBytes = 6
SPECIFICATION Spec
CHECK_DEADLOCK FALSE
INVARIANT LinesStored
