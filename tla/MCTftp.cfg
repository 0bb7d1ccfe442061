\* A writer and a reader at once, against each other's packets.
SPECIFICATION Spec
CONSTANTS
  c1 = c1
  c2 = c2
  Clients = {c1, c2}
  Writers = {c1}
  NoPeer = NoPeer
  NoData = NoData
  FileLen = 2
  BlkMod = 3
  TimeoutTicks = 1
  MaxRetries = 1
  TmrSlots = 1
  MaxChan = 2
  NoMemory = FALSE
  ResendRequest = TRUE
INVARIANTS TypeOK WriteInv WrittenOnceInOrder AckedIsStored SessionCoherent ReadInOrder
PROPERTY ImplementsFileTransfer
