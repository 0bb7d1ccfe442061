---------------------------- MODULE TmrCtrProofs ----------------------------
(***************************************************************************)
(* read_tmrctr returns a value of its call, for every register width.      *)
(***************************************************************************)
EXTENDS TmrCtr, TLAPS

LEMMA InitReadInv == Init => ReadInv
BY TmrCtrAssumption DEF Init, ReadInv, TypeOK, ReadIsCurrent, Leq

LEMMA NextTypeOK == ReadInv /\ [Next]_vars => TypeOK'
<1> SUFFICES ASSUME ReadInv, [Next]_vars PROVE TypeOK'
  OBVIOUS
<1> USE TmrCtrAssumption DEF ReadInv, TypeOK
<1>1. CASE Count
  BY <1>1 DEF Count, locals
<1>2. CASE ReadHi0
  BY <1>2 DEF ReadHi0
<1>3. CASE ReadLo
  BY <1>3 DEF ReadLo
<1>4. CASE ReadHi1
  BY <1>4 DEF ReadHi1
<1>5. CASE ReadLoAgain
  BY <1>5 DEF ReadLoAgain
<1>6. CASE UNCHANGED vars
  BY <1>6 DEF vars, locals
<1> QED
  BY <1>1, <1>2, <1>3, <1>4, <1>5, <1>6 DEF Next, read_tmrctr

(***************************************************************************)
(* A cycle of the counter moves the call's window on; a read fixes one     *)
(* word of the result inside it.                                           *)
(***************************************************************************)
LEMMA NextReadInv == ReadInv /\ [Next]_vars => ReadInv'
<1> SUFFICES ASSUME ReadInv, [Next]_vars PROVE ReadInv'
  OBVIOUS
<1>t. TypeOK'
  BY NextTypeOK
<1> USE TmrCtrAssumption DEF ReadInv, TypeOK
<1>1. CASE Count
  <2>1. pc' # "done" => CarriedAtMostOnce' /\ Leq(ret, start)' /\ hi0' = start'[1]
    BY <1>1 DEF Count, locals, CarriedAtMostOnce, Leq
  <2>2. pc' = "hi1" => LoIsCurrent'
    BY <1>1 DEF Count, locals, CarriedAtMostOnce, LoIsCurrent
  <2>3. pc' = "again" => tcr1' = start'[1] + 1 /\ hi1' = tcr1'
    BY <1>1 DEF Count, locals, CarriedAtMostOnce
  <2>4. ReadIsCurrent'
    BY <1>1 DEF Count, locals, ReadIsCurrent, Leq
  <2> QED
    BY <1>t, <2>1, <2>2, <2>3, <2>4
<1>2. CASE ReadHi0
  BY <1>t, <1>2 DEF ReadHi0, CarriedAtMostOnce, ReadIsCurrent, Leq
<1>3. CASE ReadLo
  BY <1>t, <1>3 DEF ReadLo, CarriedAtMostOnce, LoIsCurrent, ReadIsCurrent, Leq
<1>4. CASE ReadHi1
  BY <1>t, <1>4 DEF ReadHi1, CarriedAtMostOnce, LoIsCurrent, ReadIsCurrent, Leq
<1>5. CASE ReadLoAgain
  BY <1>t, <1>5 DEF ReadLoAgain, CarriedAtMostOnce, ReadIsCurrent, Leq
<1>6. CASE UNCHANGED vars
  BY <1>t, <1>6 DEF vars, locals, CarriedAtMostOnce, LoIsCurrent, ReadIsCurrent, Leq
<1> QED
  BY <1>1, <1>2, <1>3, <1>4, <1>5, <1>6 DEF Next, read_tmrctr

\* The inductive invariant behind read_tmrctr holds in every reachable state.
THEOREM ReadInvariant == Spec => []ReadInv
BY InitReadInv, NextReadInv, PTL DEF Spec

\* What read_tmrctr returns is a value the counter had during the call, for
\* every width of the registers, if a call takes less than Base cycles.
THEOREM ReadIsCurrentAlways == Spec => []ReadIsCurrent
<1>1. ReadInv => ReadIsCurrent
  BY DEF ReadInv
<1> QED
  BY <1>1, ReadInvariant, PTL

\* The values read_tmrctr returns never decrease from call to call.
THEOREM TimeIsMonotone == Spec => Monotone
<1>1. ReadInv /\ ReadInv' /\ [Next]_vars => [Leq(ret, ret')]_vars
  <2> SUFFICES ASSUME ReadInv, ReadInv', [Next]_vars PROVE Leq(ret, ret')
    OBVIOUS
  <2> USE DEF ReadInv, TypeOK, Leq
  <2>1. CASE ReadHi1
    BY <2>1 DEF ReadHi1, ReadIsCurrent
  <2>2. CASE ReadLoAgain
    BY <2>2 DEF ReadLoAgain, ReadIsCurrent
  <2>3. CASE Count \/ ReadHi0 \/ ReadLo \/ UNCHANGED vars
    BY <2>3 DEF Count, ReadHi0, ReadLo, vars, locals
  <2> QED
    BY <2>1, <2>2, <2>3 DEF Next, read_tmrctr
<1> QED
  BY <1>1, ReadInvariant, PTL DEF Spec, Monotone
=============================================================================
