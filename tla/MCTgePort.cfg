\* Frames both ways, and all that two clocks may do.
CONSTANTS
  Loads <- MCLoads
  MaxTx = 2
  Depth = 4
  MaxWords = 2
  Pause = 5
SPECIFICATION FairSpec
INVARIANTS RxWhole TxWhole
PROPERTIES RxNotLost RxShown
