\* The millisecond clock wraps.
SPECIFICATION FairSpec
CONSTANTS
  arp = arp
  autoip = autoip
  dhcp = dhcp
  tftp = tftp
  lwip_cyclic_timers <- Two
  Tftp = tftp
  Msecs <- Periods
  CheckInterval = 2
  TickMod = 40
  LoopTicks = 2
  Loads = {FALSE}
  Horizon <- Wraps
PROPERTY KeepsChecking
