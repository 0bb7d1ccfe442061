\* The cyclic timers alone, and with transfers that use the list beside them.
SPECIFICATION Spec
CONSTANTS
  arp = arp
  autoip = autoip
  dhcp = dhcp
  tftp = tftp
  lwip_cyclic_timers <- Three
  Tftp = tftp
  Msecs <- Periods
  CheckInterval = 1
  TickMod = 1000
  LoopTicks = 2
  Loads = {TRUE, FALSE}
  Horizon <- Stops
INVARIANTS TimersSurvive ExpiresInTime
PROPERTY NeverEarly
