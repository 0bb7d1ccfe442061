------------------------------ MODULE Timeouts ------------------------------
(***************************************************************************)
(* Time in the JAM firmware: the millisecond clock of tmrctr.c, lwIP's     *)
(* list of timeouts (timeouts.c), and the main loop that polls it          *)
(* (casper_lwip_handler).  The timeouts are lwIP's cyclic timers and the   *)
(* TFTP server's one-shot timer, which transfers arm and cancel.           *)
(*                                                                         *)
(* Processor time is the LoopTicks bound: one pass of the loop, and the    *)
(* handling of one expired timeout, take at most that many clock ticks.    *)
(***************************************************************************)
EXTENDS Integers, Sequences, FiniteSets

CONSTANTS
  lwip_cyclic_timers, \* the array of the stack's cyclic timers, as built
  Tftp,          \* tftp_tmr
  Msecs,         \* Msecs[h]: the period h is armed for
  CheckInterval, \* JAM_LWIP_CHECK_TIMEOUTS_INTERVAL_MS
  TickMod,       \* 2^32 in the code: ticks and milliseconds are u32
  LoopTicks,     \* bound on the ticks one step of the loop takes
  Loads,         \* with transfers (TRUE), without (FALSE), or either
  Horizon        \* Horizon[load]: the tick at which the clock stops; it wraps
                 \* if that is TickMod

\* MEMP_NUM_SYS_TIMEOUT: an entry for each timer that is configured.
PoolSize == Len(lwip_cyclic_timers)

\* Mutant: the first timer is started too.
CyclicAll == {lwip_cyclic_timers[k] : k \in 1..Len(lwip_cyclic_timers)}

\* The cyclic timers sys_timeouts_init starts: all but the first.
Cyclic == {lwip_cyclic_timers[k] : k \in 2..Len(lwip_cyclic_timers)}

Handlers == {lwip_cyclic_timers[k] : k \in 1..Len(lwip_cyclic_timers)} \cup {Tftp}

ASSUME TimeoutsAssumption ==
  /\ lwip_cyclic_timers \in Seq(Handlers) /\ Len(lwip_cyclic_timers) > 1
  /\ \A j, k \in 1..Len(lwip_cyclic_timers) :
       /\ lwip_cyclic_timers[j] # Tftp
       /\ j # k => lwip_cyclic_timers[j] # lwip_cyclic_timers[k]
  /\ Msecs \in [Handlers -> Nat \ {0}]
  /\ CheckInterval \in Nat \ {0} /\ LoopTicks \in Nat \ {0}
  /\ TickMod \in Nat /\ TickMod > 3
  /\ Loads \subseteq BOOLEAN /\ Horizon \in [BOOLEAN -> 0..TickMod]

VARIABLES
  ticks,      \* the u32 tick counter, three ticks to the millisecond
  busy,       \* ticks since the loop's last step (ghost)
  pc,         \* where the main loop is: "rx", "poll" or "fire"
  next_timeout_check_ms,
  next_timeout,       \* the list, head first: [h, time, age], age a ghost
  timeouts_last_time,
  diff,       \* sys_check_timeouts' local
  session,    \* is a TFTP transfer open?
  transfers   \* do packets arrive that open and close transfers?

list == <<next_timeout, timeouts_last_time>>
vars == <<ticks, busy, pc, next_timeout_check_ms, list, diff, session,
          transfers>>

\* The millisecond clock runs to a third of what a u32 can hold.
ms_tmrctr(t) == t \div 3
LastMs == (TickMod - 1) \div 3
sys_now == ms_tmrctr(ticks)
Sub(a, b) == (a - b) % TickMod
Plus(a, b) == (a + b) % TickMod

\* How old an entry can get before its age stops being counted.
AgeCap == LastMs

(***************************************************************************)
(* The list is a pair of the entries l and the time last they count from.  *)
(* An entry's time is relative to the entry before it.                     *)
(***************************************************************************)
Shift(l, k, d) == [l EXCEPT ![k].time = Plus(@, d)]

\* The time of entry k relative to timeouts_last_time.
DueAt(l, k) ==
  LET S[i \in 0..k] == IF i = 0 THEN 0 ELSE S[i - 1] + l[i].time IN S[k]

\* Mutant: the entries behind the new one keep their relative time.
InsertNoShift(l, h, d) ==
  LET m == Msecs[h]
      entry(t) == [h |-> h, time |-> t, age |-> 0]
      rest(k) == Sub(Plus(m, d), DueAt(l, k))
      n == Len(l)
      stops(k) == k = n \/ l[k + 1].time > rest(k)
      k == CHOOSE i \in 1..n : stops(i) /\ \A j \in 1..(i - 1) : ~stops(j)
  IN IF n = 0 THEN <<entry(m)>>
     ELSE IF l[1].time > m THEN <<entry(Plus(m, d))>> \o l
     ELSE SubSeq(l, 1, k) \o <<entry(rest(k))>> \o SubSeq(l, k + 1, n)

\* What sys_timeout makes of the list l, with an entry for h armed at now.
Insert(l, h, d) ==
  LET m == Msecs[h]
      entry(t) == [h |-> h, time |-> t, age |-> 0]
      rest(k) == Sub(Plus(m, d), DueAt(l, k))
      n == Len(l)
      stops(k) == k = n \/ l[k + 1].time > rest(k)
      k == CHOOSE i \in 1..n : stops(i) /\ \A j \in 1..(i - 1) : ~stops(j)
  IN IF n = 0 THEN <<entry(m)>>
     ELSE IF l[1].time > m THEN <<entry(Plus(m, d))>> \o Shift(l, 1, -m)
     ELSE IF k < n
       THEN SubSeq(l, 1, k) \o <<entry(rest(k))>>
              \o SubSeq(Shift(l, k + 1, -rest(k)), k + 1, n)
     ELSE Append(l, entry(IF rest(n) > m THEN Plus(m, l[1].time) ELSE rest(n)))

\* sys_timeout on the list l counting from last: silently nothing without a
\* free pool entry.
sys_timeout(l, last, h) ==
  IF Len(l) >= PoolSize THEN <<l, last>>
  ELSE IF l = <<>> THEN <<Insert(l, h, 0), sys_now>>
  ELSE <<Insert(l, h, Sub(sys_now, last)), last>>

\* Mutant: the time of the entry unlinked is not given to the next.
sys_untimeout_drops(l, h) ==
  LET at == {i \in 1..Len(l) : l[i].h = h}
      k == CHOOSE i \in at : \A j \in at : i <= j
  IN IF at = {} THEN l ELSE SubSeq(l, 1, k - 1) \o SubSeq(l, k + 1, Len(l))

\* sys_untimeout: unlink the first entry of h, giving its time to the next.
sys_untimeout(l, h) ==
  LET at == {i \in 1..Len(l) : l[i].h = h}
      k == CHOOSE i \in at : \A j \in at : i <= j
      unlinked == IF k < Len(l) THEN Shift(l, k + 1, l[k].time) ELSE l
  IN IF at = {} THEN l
     ELSE SubSeq(unlinked, 1, k - 1) \o SubSeq(unlinked, k + 1, Len(l))

(***************************************************************************)
(* The clock.  It runs beside the loop, which cannot stay busy for long.   *)
(***************************************************************************)
Tick ==
  /\ busy < LoopTicks
  /\ ticks < Horizon[transfers]
  /\ ticks' = (ticks + 1) % TickMod
  /\ busy' = busy + 1
  /\ next_timeout' =
       [i \in 1..Len(next_timeout) |->
         IF sys_now # ms_tmrctr(ticks') /\ next_timeout[i].age < AgeCap
           THEN [next_timeout[i] EXCEPT !.age = @ + 1] ELSE next_timeout[i]]
  /\ UNCHANGED <<pc, next_timeout_check_ms, timeouts_last_time, diff, session,
                 transfers>>

LoopStep(from, to) ==
  /\ pc = from /\ pc' = to /\ busy' = 0
  /\ UNCHANGED <<ticks, transfers>>

(***************************************************************************)
(* casper_rx_packet: no packet of interest, a request that opens a         *)
(* transfer, one that is refused after the timer is armed, or the packet   *)
(* that ends the open transfer.                                            *)
(***************************************************************************)
SetList(v) == next_timeout' = v[1] /\ timeouts_last_time' = v[2]
Arm == SetList(sys_timeout(next_timeout, timeouts_last_time, Tftp))
Cancel(l, last) == SetList(<<sys_untimeout(l, Tftp), last>>)

\* Receiving a packet takes a tick or more.
RxPacket  == transfers /\ busy > 0

RxNothing == UNCHANGED <<list, session>>
RxOpen    == RxPacket /\ ~session /\ session' = TRUE /\ Arm
RxRefused == RxPacket /\ ~session /\ Arm /\ UNCHANGED session
RxClose   ==
  /\ RxPacket /\ session /\ session' = FALSE
  /\ Cancel(next_timeout, timeouts_last_time)

casper_rx_packet ==
  /\ LoopStep("rx", "poll")
  /\ RxNothing \/ RxOpen \/ RxRefused \/ RxClose
  /\ UNCHANGED <<next_timeout_check_ms, diff>>

(***************************************************************************)
(* The rest of casper_lwip_handler: check the timeouts if it is time to.   *)
(***************************************************************************)
PollEarly ==
  /\ LoopStep("poll", "rx")
  /\ next_timeout_check_ms > sys_now
  /\ UNCHANGED <<next_timeout_check_ms, list, diff, session>>

PollCheck ==
  /\ LoopStep("poll", "fire")
  /\ next_timeout_check_ms <= sys_now
  /\ next_timeout_check_ms' = Plus(sys_now, CheckInterval)
  /\ diff' = Sub(sys_now, timeouts_last_time)
  /\ UNCHANGED <<list, session>>

(***************************************************************************)
(* sys_check_timeouts: take an expired entry off the list, free it, and    *)
(* run its handler.                                                        *)
(***************************************************************************)
Expired == next_timeout # <<>> /\ Head(next_timeout).time <= diff

\* cyclic_timer arms itself again.
FireCyclic(l, last) ==
  /\ Head(next_timeout).h \in Cyclic
  /\ SetList(sys_timeout(l, last, Head(next_timeout).h))
  /\ UNCHANGED session

\* tftp_tmr stays armed while a transfer is open, unless it closes it.
FireTftp(l, last) ==
  LET armed == sys_timeout(l, last, Tftp) IN
  /\ Head(next_timeout).h = Tftp
  /\ \/ ~session /\ SetList(<<l, last>>) /\ UNCHANGED session
     \/ session /\ SetList(armed) /\ UNCHANGED session
     \/ session /\ session' = FALSE /\ Cancel(armed[1], armed[2])

Fire ==
  LET entry == Head(next_timeout)
      last == Plus(timeouts_last_time, entry.time)
  IN /\ LoopStep("fire", "fire") /\ Expired
     /\ diff' = Sub(diff, entry.time)
     /\ FireCyclic(Tail(next_timeout), last) \/ FireTftp(Tail(next_timeout), last)
     /\ UNCHANGED next_timeout_check_ms

CheckDone ==
  /\ LoopStep("fire", "rx") /\ ~Expired
  /\ UNCHANGED <<next_timeout_check_ms, list, diff, session>>

sys_check_timeouts == Fire \/ CheckDone

\* sys_timeouts_init arms the cyclic timers in the order of their array; the
\* order makes no difference to a list armed at one instant with distinct
\* periods.
Init ==
  /\ ticks = 0 /\ busy = 0 /\ pc = "rx"
  /\ next_timeout_check_ms = CheckInterval
  /\ \E s \in [1..Cardinality(Cyclic) -> Cyclic] :
       /\ \A i, j \in DOMAIN s : i < j => s[i] # s[j] /\ Msecs[s[i]] <= Msecs[s[j]]
       /\ next_timeout = [i \in DOMAIN s |->
            [h |-> s[i], age |-> 0,
             time |-> Msecs[s[i]] - (IF i = 1 THEN 0 ELSE Msecs[s[i - 1]])]]
  /\ timeouts_last_time = 0
  /\ diff = 0 /\ session = FALSE /\ transfers \in Loads

Loop == casper_rx_packet \/ PollEarly \/ PollCheck \/ sys_check_timeouts
Next == Tick \/ Loop

Spec == Init /\ [][Next]_vars

(***************************************************************************)
(* The loop runs for ever and the counter never stops.                     *)
(***************************************************************************)
FairSpec == Spec /\ WF_vars(Loop) /\ WF_vars(Tick)

(***************************************************************************)
(* Properties.                                                             *)
(***************************************************************************)
Entry == [h : Handlers, time : 0..(TickMod - 1), age : 0..AgeCap]

\* The state stays in its type: no more entries than the pool holds.
TypeOK ==
  /\ ticks \in 0..(TickMod - 1) /\ busy \in 0..LoopTicks
  /\ pc \in {"rx", "poll", "fire"}
  /\ next_timeout_check_ms \in 0..(TickMod - 1)
  /\ next_timeout \in Seq(Entry) /\ Len(next_timeout) <= PoolSize
  /\ timeouts_last_time \in 0..(TickMod - 1)
  /\ diff \in 0..(TickMod - 1)
  /\ session \in BOOLEAN /\ transfers \in Loads

EntriesOf(h) == {i \in 1..Len(next_timeout) : next_timeout[i].h = h}

\* Every cyclic timer is armed exactly once at every step of the loop, however
\* transfers use the rest of the pool, and a transfer has its timer: no
\* sys_timeout that matters ever meets an empty pool.  The entry the TFTP timer
\* uses is the one of the timer that sys_timeouts_init does not start.
TimersSurvive ==
  /\ \A h \in Cyclic : Cardinality(EntriesOf(h)) = 1
  /\ session => EntriesOf(Tftp) # {}

\* How late, in milliseconds, an expired timeout is seen: the check before it
\* came due, and three steps of the loop.
Lateness == CheckInterval - 1 + LoopTicks

\* sys_check_timeouts never runs a handler before its period has passed since
\* it was armed, but for the lateness of the check that armed it.
NeverEarly ==
  [][Fire => Head(next_timeout).age + Lateness >= Msecs[Head(next_timeout).h]]_vars

\* Each time the shortest cyclic timer is armed late again at the head of the
\* list, sys_timeout puts off the entries behind it by its lateness.
Shortest == CHOOSE m \in {Msecs[h] : h \in Cyclic} : \A h \in Cyclic : m <= Msecs[h]
Drift(h) == (2 + Msecs[h] \div Shortest) * Lateness

\* A cyclic timer is run when its period has passed, but for the lateness of
\* the checks: sys_timeout's "time in milliseconds after that the timer should
\* expire".  It holds only without transfers: a TFTP timer armed at the head of
\* the list puts the others off by the time since the list was processed.
ExpiresInTime ==
  ~transfers => \A i \in 1..Len(next_timeout) :
    next_timeout[i].age <= Msecs[next_timeout[i].h] + Drift(next_timeout[i].h)

\* sys_check_timeouts is called again and again from the main loop.
KeepsChecking == []<>(pc = "fire")
=============================================================================
