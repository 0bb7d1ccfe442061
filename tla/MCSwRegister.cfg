\* Two words, and a design whose clock is at least half as fast as the bus.
CONSTANTS
  Values = {v0, v1}
  Zero = v0
  InitVal = v1
  Torn = Torn
  NoWrite = NoWrite
  WriteGap = 17
  MaxBus = 2
SPECIFICATION FairSpec
INVARIANTS WholeToProcessor WholeFromProcessor
PROPERTIES ShowsInput Arrives
