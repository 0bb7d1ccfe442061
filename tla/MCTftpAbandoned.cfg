\* A writer and a reader, either of which may vanish,
\* and no memory for data packets.
SPECIFICATION FairSpec
CONSTANTS
  c1 = c1
  c2 = c2
  Clients = {c1, c2}
  Writers = {c1}
  NoPeer = NoPeer
  NoData = NoData
  FileLen = 2
  BlkMod = 3
  TimeoutTicks = 1
  MaxRetries = 1
  TmrSlots = 1
  MaxChan = 1
  NoMemory = TRUE
  ResendRequest = TRUE
PROPERTY AbandonedSessionEnds
