\* Every small design, built, started and listed twice.
CONSTANTS
  Designs <- MCDesigns
  Names <- MCNames
  BaseAddr = 16
  Alignment = 4
  EthCore = 1
  BlockSize = 4
  MaxLists = 2
SPECIFICATION Spec
CHECK_DEADLOCK FALSE
INVARIANTS ReachesOwner FindsOnlyDevices FindsEthernet ListsAll
