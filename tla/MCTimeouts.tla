----------------------------- MODULE MCTimeouts -----------------------------
(***************************************************************************)
(* TLC instances of Timeouts.  The build has no TCP: the first timer is    *)
(* ARP's.                                                                  *)
(***************************************************************************)
EXTENDS Timeouts

CONSTANTS arp, autoip, dhcp, tftp

Three == <<arp, dhcp, autoip>>
Two == <<arp, autoip>>

Periods == [h \in Handlers |->
  CASE h = tftp -> 2 [] h = autoip -> 3 [] h = dhcp -> 6 [] h = arp -> 5]

\* Transfers reach everything of interest sooner.
Stops == [load \in BOOLEAN |-> IF load THEN 39 ELSE 120]
Wraps == [load \in BOOLEAN |-> TickMod]
=============================================================================
