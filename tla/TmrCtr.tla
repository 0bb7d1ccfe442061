------------------------------- MODULE TmrCtr -------------------------------
(***************************************************************************)
(* read_tmrctr of tmrctr.c: reading a 64-bit hardware counter as two words *)
(* while it counts.  The counter is two cascaded timers; the processor     *)
(* reads one of them at a time, and the counter moves between the reads.   *)
(***************************************************************************)
EXTENDS Integers

CONSTANTS
  Base,      \* 2^32 in the code: what one counter register holds
  HiMax,     \* the upper register stops here (a bound: 5000 years of cycles)
  ReadBound  \* bound on the cycles one call of read_tmrctr takes

ASSUME TmrCtrAssumption ==
  /\ Base \in Nat \ {0}
  /\ HiMax \in Nat
  /\ ReadBound \in Nat /\ ReadBound < Base

VARIABLES
  tcr1, tcr0,  \* the hardware counter: its upper and lower register
  pc,          \* the register read_tmrctr reads next, or "done"
  hi0, lo, hi1,
  ret,         \* the value read_tmrctr returned last, as <<upper, lower>>
  start,       \* the counter when the call began (ghost)
  elapsed      \* the cycles since then (ghost)

locals == <<hi0, lo, hi1>>
vars == <<tcr1, tcr0, pc, locals, ret, start, elapsed>>

\* The order of two 64-bit values.
Leq(a, b) == a[1] < b[1] \/ (a[1] = b[1] /\ a[2] <= b[2])

\* init_tmrctr loads both registers with zero and starts them in cascade.
Init ==
  /\ tcr1 = 0 /\ tcr0 = 0
  /\ pc = "done"
  /\ hi0 = 0 /\ lo = 0 /\ hi1 = 0
  /\ ret = <<0, 0>> /\ start = <<0, 0>> /\ elapsed = 0

\* A cycle of the counter: the lower register carries into the upper one.
Count ==
  /\ IF tcr0 + 1 < Base
       THEN tcr0' = tcr0 + 1 /\ tcr1' = tcr1
       ELSE tcr1 < HiMax /\ tcr0' = 0 /\ tcr1' = tcr1 + 1
  /\ \/ pc = "done" /\ elapsed' = elapsed
     \/ pc # "done" /\ elapsed < ReadBound /\ elapsed' = elapsed + 1
  /\ UNCHANGED <<pc, locals, ret, start>>

ReadHi0 ==
  /\ pc = "done" /\ pc' = "lo"
  /\ hi0' = tcr1
  /\ start' = <<tcr1, tcr0>> /\ elapsed' = 0
  /\ UNCHANGED <<tcr1, tcr0, lo, hi1, ret>>

ReadLo ==
  /\ pc = "lo" /\ pc' = "hi1"
  /\ lo' = tcr0
  /\ UNCHANGED <<tcr1, tcr0, hi0, hi1, ret, start, elapsed>>

\* Mutant: the upper register is trusted although it has changed.
ReadHi1Trusting ==
  /\ pc = "hi1"
  /\ hi1' = tcr1
  /\ pc' = "done" /\ ret' = <<tcr1, lo>>
  /\ UNCHANGED <<tcr1, tcr0, hi0, lo, start, elapsed>>

\* The upper register again: if it has not changed the value is complete.
ReadHi1 ==
  /\ pc = "hi1"
  /\ hi1' = tcr1
  /\ \/ hi0 = tcr1 /\ pc' = "done" /\ ret' = <<tcr1, lo>>
     \/ hi0 # tcr1 /\ pc' = "again" /\ ret' = ret
  /\ UNCHANGED <<tcr1, tcr0, hi0, lo, start, elapsed>>

\* If it has changed, the lower register is read a second time, once.
ReadLoAgain ==
  /\ pc = "again" /\ pc' = "done"
  /\ lo' = tcr0
  /\ ret' = <<hi1, tcr0>>
  /\ UNCHANGED <<tcr1, tcr0, hi0, hi1, start, elapsed>>

read_tmrctr == ReadHi0 \/ ReadLo \/ ReadHi1 \/ ReadLoAgain
Next == Count \/ read_tmrctr

Spec == Init /\ [][Next]_vars

(***************************************************************************)
(* Properties.                                                             *)
(***************************************************************************)

\* Both registers and all the words read are words.
TypeOK ==
  /\ tcr1 \in 0..HiMax /\ tcr0 \in 0..(Base - 1)
  /\ pc \in {"done", "lo", "hi1", "again"}
  /\ hi0 \in 0..HiMax /\ lo \in 0..(Base - 1) /\ hi1 \in 0..HiMax
  /\ ret \in (0..HiMax) \X (0..(Base - 1))
  /\ start \in (0..HiMax) \X (0..(Base - 1))
  /\ elapsed \in 0..ReadBound

\* The value read_tmrctr returns is one the counter had during the call, even
\* when the lower register wraps between the reads.
ReadIsCurrent ==
  pc = "done" => Leq(start, ret) /\ Leq(ret, <<tcr1, tcr0>>)

\* Time never runs backwards: a call never returns less than the one before.
Monotone == [][Leq(ret, ret')]_vars

(***************************************************************************)
(* The inductive invariant: the counter has moved less than Base since the *)
(* call began, so it has carried at most once, and what has been read so   *)
(* far tells when.                                                         *)
(***************************************************************************)
CarriedAtMostOnce ==
  \/ tcr1 = start[1] /\ tcr0 = start[2] + elapsed
  \/ tcr1 = start[1] + 1 /\ tcr0 = start[2] + elapsed - Base

LoIsCurrent ==
  \/ lo >= start[2] /\ (tcr1 = start[1] => lo <= tcr0)
  \/ lo < start[2] /\ tcr1 = start[1] + 1

ReadInv ==
  /\ TypeOK
  /\ pc # "done" => CarriedAtMostOnce /\ Leq(ret, start) /\ hi0 = start[1]
  /\ pc = "hi1" => LoIsCurrent
  /\ pc = "again" => tcr1 = start[1] + 1 /\ hi1 = tcr1
  /\ ReadIsCurrent
=============================================================================
