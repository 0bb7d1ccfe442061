-------------------------- MODULE SwRegisterProofs --------------------------
(***************************************************************************)
(* The words that cross between the clocks are whole, for all words and    *)
(* all behaviours of the two clocks: the one the processor reads, always,  *)
(* and the one the design sees, when writes are far enough apart.  In both *)
(* directions the six bits of the handshake have at most one change under  *)
(* way (OneChange), so a side takes a word only while it does not change.  *)
(***************************************************************************)
EXTENDS SwRegister, TLAPS

\* The flip-flops of wb_register_simulink2ppc, none of them torn.
S2pType ==
  s2p \in [register_request : BOOLEAN, register_requestR : BOOLEAN,
           register_requestRR : BOOLEAN, register_ready : BOOLEAN,
           register_readyR : BOOLEAN, register_readyRR : BOOLEAN,
           user_data_in_reg : Values, register_buffer : Values]

\* The inductive invariant.
S2pInv == S2pType /\ user_data_in \in Values /\ OneRound

\* A word that does not change is sampled as it is.
LEMMA SampledWhole == \A v : Sampled(v, v) = {v}
  BY DEF Sampled

\* An edge of the bus clock moves the one change on, or starts one.
LEMMA BusEdgeInv ==
  ASSUME S2pType, OneRound, s2p' = S2pBusEdge(s2p, s2p.register_ready, s2p.user_data_in_reg)
  PROVE  S2pType' /\ OneRound'
<1>1. S2pType'
  BY DEF S2pType, S2pBusEdge
<1>2. OneRound'
  BY DEF S2pType, S2pBusEdge, OneRound, OneChange
<1> QED BY <1>1, <1>2

\* So does an edge of the design's clock.
LEMMA UserEdgeInv ==
  ASSUME S2pType, OneRound, user_data_in \in Values,
         s2p' = S2pUserEdge(s2p, s2p.register_request, user_data_in)
  PROVE  S2pType' /\ OneRound'
<1>1. S2pType'
  BY DEF S2pType, S2pUserEdge
<1>2. OneRound'
  BY DEF S2pType, S2pUserEdge, OneRound, OneChange
<1> QED BY <1>1, <1>2

\* When both come at once the design does not take a word while the bus side
\* latches one.
LEMMA BothEdgesInv ==
  ASSUME S2pType, OneRound, user_data_in \in Values, S2pBothEdges
  PROVE  S2pType' /\ OneRound'
<1> DEFINE b == S2pBusEdge(s2p, s2p.register_ready, s2p.user_data_in_reg)
           u == S2pUserEdge(s2p, s2p.register_request, user_data_in)
<1>1. PICK request \in {s2p.register_request, b.register_request},
           ready \in {s2p.register_ready, u.register_ready},
           data \in Sampled(s2p.user_data_in_reg, u.user_data_in_reg) :
        s2p' = S2pUserEdge(S2pBusEdge(s2p, ready, data), request, user_data_in)
  BY DEF S2pBothEdges
<1>2. /\ b.register_request = ~s2p.register_readyRR
      /\ u.register_ready = s2p.register_requestRR
      /\ u.user_data_in_reg =
           IF s2p.register_requestRR /\ ~s2p.register_ready THEN user_data_in
           ELSE s2p.user_data_in_reg
  BY DEF S2pType, S2pBusEdge, S2pUserEdge
<1>3. request \in BOOLEAN /\ ready \in BOOLEAN
  BY <1>1, <1>2 DEF S2pType
<1>4. s2p.register_readyRR /\ s2p.register_request => data \in Values
  <2> SUFFICES ASSUME s2p.register_readyRR, s2p.register_request PROVE data \in Values
    OBVIOUS
  <2>1. ~(s2p.register_requestRR /\ ~s2p.register_ready)
    BY DEF S2pType, OneRound, OneChange
  <2>2. u.user_data_in_reg = s2p.user_data_in_reg
    BY <1>2, <2>1
  <2>3. data \in Sampled(s2p.user_data_in_reg, s2p.user_data_in_reg)
    BY <2>2
  <2>4. data = s2p.user_data_in_reg
    BY <2>3, SampledWhole
  <2> QED BY <2>4 DEF S2pType
<1>5. s2p' = [register_request |-> ~s2p.register_readyRR, register_requestR |-> request,
              register_requestRR |-> s2p.register_requestR,
              register_ready |-> s2p.register_requestRR,
              register_readyR |-> ready, register_readyRR |-> s2p.register_readyR,
              user_data_in_reg |-> IF s2p.register_requestRR /\ ~s2p.register_ready
                                     THEN user_data_in ELSE s2p.user_data_in_reg,
              register_buffer |-> IF s2p.register_readyRR /\ s2p.register_request
                                    THEN data ELSE s2p.register_buffer]
  BY <1>1 DEF S2pType, S2pBusEdge, S2pUserEdge
<1>6. S2pType'
  BY <1>3, <1>4, <1>5 DEF S2pType
<1>7. OneRound'
  <2> HIDE DEF b, u
  <2> QED BY <1>1, <1>2, <1>3, <1>5 DEF S2pType, OneRound, OneChange
<1> QED BY <1>6, <1>7

\* Whatever the words and whatever the clocks do, the processor reads a word the
\* design showed and never a mixture of two (wb_register_simulink2ppc.v).
THEOREM ToProcessorWhole == Spec => []WholeToProcessor
<1>1. Init => S2pInv
  BY RegisterAssumption DEF Init, S2pInv, S2pType, OneRound, OneChange
<1>2. S2pInv /\ [Next]_vars => S2pInv'
  <2> SUFFICES ASSUME S2pInv, [Next]_vars PROVE S2pInv'
    OBVIOUS
  <2>1. CASE BusEdge
    BY <2>1, BusEdgeInv DEF BusEdge, S2pInv
  <2>2. CASE UserEdge
    BY <2>2, UserEdgeInv DEF UserEdge, S2pInv
  <2>3. CASE BothEdges
    BY <2>3, BothEdgesInv DEF BothEdges, S2pInv
  <2>4. CASE UNCHANGED vars
    BY <2>4 DEF vars, S2pInv, S2pType, OneRound
  <2> QED BY <2>1, <2>2, <2>3, <2>4 DEF Next
<1>3. S2pInv => WholeToProcessor
  BY RegisterAssumption DEF S2pInv, S2pType, WholeToProcessor
<1> QED BY <1>1, <1>2, <1>3, PTL DEF Spec

(***************************************************************************)
(* The word the design sees is whole too, when the processor leaves the    *)
(* handshake of wb_register_ppc2simulink the time to go round: six cycles  *)
(* of the design and five of the bus.  The inductive invariant bounds how  *)
(* long ago the last write can be at each place of the handshake.          *)
(***************************************************************************)
P2sType ==
  p2s \in [register_ready : BOOLEAN, register_readyR : BOOLEAN,
           register_readyRR : BOOLEAN, register_done : BOOLEAN,
           register_doneR : BOOLEAN, register_doneRR : BOOLEAN,
           reg_buffer : Values, user_data_out_reg : Values]

\* What the clocks of the write and of the design's cycles can show with the
\* change between two neighbours of the six flip-flops a to f.  Until the design
\* has seen the change its cycles count, then those of the bus.
Within(a, b, c, d, e, f, s, n) ==
  /\ a /\ ~b => s <= n
  /\ a /\ b /\ ~c => s <= MaxBus + n
  /\ a /\ c /\ ~d => s <= 2 * MaxBus + n
  /\ a /\ d /\ ~e => s <= 3 * MaxBus
  /\ a /\ e /\ ~f => s <= 3 * MaxBus + 1
  /\ a /\ f => s <= 3 * MaxBus + 2
  /\ ~a /\ b => s <= 3 * MaxBus + 3 + n
  /\ ~b /\ c => s <= 4 * MaxBus + 3 + n
  /\ ~c /\ d => s <= 5 * MaxBus + 3 + n
  /\ ~d /\ e => s <= 6 * MaxBus + 3
  /\ ~e /\ f => s <= 6 * MaxBus + 4

OnTheWay ==
  /\ OneChange(p2s.register_ready, p2s.register_readyR, p2s.register_readyRR,
               p2s.register_done, p2s.register_doneR, p2s.register_doneRR)
  /\ Within(p2s.register_ready, p2s.register_readyR, p2s.register_readyRR,
            p2s.register_done, p2s.register_doneR, p2s.register_doneRR, since, bus)

P2sInv == P2sType /\ since \in Nat /\ bus \in 0..MaxBus /\ OnTheWay

\* The cycle of the bus: a write meets a handshake that has gone round.
LEMMA CycleMoves ==
  ASSUME 6 * MaxBus + 5 <= WriteGap, P2sInv, NEW w \in Values \cup {NoWrite}, BusCycle(w)
  PROVE  /\ bus < MaxBus /\ since' \in Nat
         /\ w # NoWrite => ~p2s.register_ready /\ ~p2s.register_readyR /\ ~p2s.register_readyRR
                             /\ ~p2s.register_done /\ ~p2s.register_doneR /\ ~p2s.register_doneRR
         /\ IF w # NoWrite THEN since' = 0 ELSE since' <= since + 1
<1>1. w # NoWrite <=> w \in Values
  BY RegisterAssumption
<1>2. /\ bus < MaxBus /\ since' \in Nat
      /\ IF w # NoWrite THEN since' = 0 ELSE since' <= since + 1
  BY <1>1, RegisterAssumption DEF BusCycle, P2sInv
<1>3. ASSUME w # NoWrite
      PROVE  ~p2s.register_ready /\ ~p2s.register_readyR /\ ~p2s.register_readyRR
               /\ ~p2s.register_done /\ ~p2s.register_doneR /\ ~p2s.register_doneRR
  <2>1. since >= 6 * MaxBus + 5 /\ bus \in Nat /\ bus < MaxBus /\ MaxBus \in Nat
    BY <1>1, <1>2, <1>3, RegisterAssumption DEF BusCycle, P2sInv
  <2>2. OnTheWay /\ P2sType /\ since \in Nat
    BY DEF P2sInv
  <2> QED
    BY <2>1, <2>2 DEF OnTheWay, OneChange, Within, P2sType
<1> QED
  BY <1>2, <1>3

LEMMA P2sBusEdgeInv ==
  ASSUME 6 * MaxBus + 5 <= WriteGap, P2sInv, BusEdge
  PROVE  P2sInv'
<1>1. PICK w \in Values \cup {NoWrite} :
        BusCycle(w) /\ p2s' = P2sBusEdge(p2s, p2s.register_done, w)
  BY DEF BusEdge
<1> DEFINE a == p2s.register_ready
           f == p2s.register_doneRR
           write == w # NoWrite
<1>2. p2s' = [register_ready |-> ~f /\ (write \/ a), register_readyR |-> p2s.register_readyR,
              register_readyRR |-> p2s.register_readyRR, register_done |-> p2s.register_done,
              register_doneR |-> p2s.register_done, register_doneRR |-> p2s.register_doneR,
              reg_buffer |-> IF write THEN w ELSE p2s.reg_buffer,
              user_data_out_reg |-> p2s.user_data_out_reg]
  BY <1>1 DEF P2sInv, P2sType, P2sBusEdge
<1>3. P2sType'
  BY <1>2 DEF P2sInv, P2sType
<1>4. bus' = bus + 1 /\ bus' \in 0..MaxBus /\ since' \in Nat
  BY <1>1, CycleMoves, RegisterAssumption DEF BusEdge, P2sInv
<1>5. OnTheWay'
  <2>1. /\ bus < MaxBus /\ since' \in Nat
        /\ write => ~a /\ ~p2s.register_readyR /\ ~p2s.register_readyRR
                       /\ ~p2s.register_done /\ ~p2s.register_doneR /\ ~f
        /\ IF write THEN since' = 0 ELSE since' <= since + 1
    BY <1>1, CycleMoves
  <2>2. /\ OneChange(~f /\ (write \/ a), p2s.register_readyR, p2s.register_readyRR,
                     p2s.register_done, p2s.register_done, p2s.register_doneR)
        /\ Within(~f /\ (write \/ a), p2s.register_readyR, p2s.register_readyRR,
                  p2s.register_done, p2s.register_done, p2s.register_doneR, since', bus + 1)
    BY <2>1, RegisterAssumption DEF P2sInv, P2sType, OnTheWay, OneChange, Within
  <2> QED
    BY <1>2, <1>4, <2>2 DEF OnTheWay
<1> QED
  BY <1>3, <1>4, <1>5 DEF P2sInv

LEMMA P2sUserEdgeInv ==
  ASSUME P2sInv, UserEdge
  PROVE  P2sInv'
<1>1. p2s' = [register_ready |-> p2s.register_ready, register_readyR |-> p2s.register_ready,
              register_readyRR |-> p2s.register_readyR, register_done |-> p2s.register_readyRR,
              register_doneR |-> p2s.register_doneR, register_doneRR |-> p2s.register_doneRR,
              reg_buffer |-> p2s.reg_buffer,
              user_data_out_reg |->
                IF p2s.register_readyRR THEN p2s.reg_buffer ELSE p2s.user_data_out_reg]
  BY DEF P2sInv, P2sType, P2sUserEdge, UserEdge
<1>2. P2sType'
  BY <1>1 DEF P2sInv, P2sType
<1>3. bus' = 0 /\ since' = since /\ bus' \in 0..MaxBus
  BY RegisterAssumption DEF UserEdge
<1>4. /\ OneChange(p2s.register_ready, p2s.register_ready, p2s.register_readyR,
                   p2s.register_readyRR, p2s.register_doneR, p2s.register_doneRR)
      /\ Within(p2s.register_ready, p2s.register_ready, p2s.register_readyR,
                p2s.register_readyRR, p2s.register_doneR, p2s.register_doneRR, since, 0)
  BY RegisterAssumption DEF P2sInv, P2sType, OnTheWay, OneChange, Within
<1>5. OnTheWay'
  BY <1>1, <1>3, <1>4 DEF OnTheWay
<1> QED
  BY <1>2, <1>3, <1>5 DEF P2sInv

LEMMA P2sBothEdgesInv ==
  ASSUME 6 * MaxBus + 5 <= WriteGap, P2sInv, BothEdges
  PROVE  P2sInv'
<1>1. PICK w \in Values \cup {NoWrite} : BusCycle(w) /\ P2sBothEdges(w)
  BY DEF BothEdges
<1> DEFINE bb == P2sBusEdge(p2s, p2s.register_done, w)
           u == P2sUserEdge(p2s, p2s.register_ready, p2s.reg_buffer)
           a == p2s.register_ready
           f == p2s.register_doneRR
           write == w # NoWrite
<1>2. PICK done \in {p2s.register_done, u.register_done},
           ready \in {p2s.register_ready, bb.register_ready},
           data \in Sampled(p2s.reg_buffer, bb.reg_buffer) :
        p2s' = P2sUserEdge(P2sBusEdge(p2s, done, w), ready, data)
  BY <1>1 DEF P2sBothEdges
<1>3. /\ u.register_done = p2s.register_readyRR
      /\ bb.register_ready = (~f /\ (write \/ a))
      /\ bb.reg_buffer = IF write THEN w ELSE p2s.reg_buffer
  BY DEF P2sInv, P2sType, P2sBusEdge, P2sUserEdge
<1>4. p2s' = [register_ready |-> ~f /\ (write \/ a), register_readyR |-> ready,
              register_readyRR |-> p2s.register_readyR, register_done |-> p2s.register_readyRR,
              register_doneR |-> done, register_doneRR |-> p2s.register_doneR,
              reg_buffer |-> IF write THEN w ELSE p2s.reg_buffer,
              user_data_out_reg |->
                IF p2s.register_readyRR THEN data ELSE p2s.user_data_out_reg]
  BY <1>2 DEF P2sInv, P2sType, P2sBusEdge, P2sUserEdge
<1>5. /\ bus < MaxBus /\ since' \in Nat
      /\ write => ~a /\ ~p2s.register_readyR /\ ~p2s.register_readyRR
                     /\ ~p2s.register_done /\ ~p2s.register_doneR /\ ~f
      /\ IF write THEN since' = 0 ELSE since' <= since + 1
  BY <1>1, CycleMoves
<1>6. p2s.register_readyRR => data \in Values
  <2> SUFFICES ASSUME p2s.register_readyRR PROVE data \in Values
    OBVIOUS
  <2>1. bb.reg_buffer = p2s.reg_buffer
    BY <1>3, <1>5
  <2>2. data \in Sampled(p2s.reg_buffer, p2s.reg_buffer)
    BY <2>1
  <2>3. data = p2s.reg_buffer
    BY <2>2, SampledWhole
  <2> QED
    BY <2>3 DEF P2sInv, P2sType
<1>7. done \in BOOLEAN /\ ready \in BOOLEAN
  BY <1>2, <1>3 DEF P2sInv, P2sType
<1>8. P2sType'
  BY <1>4, <1>6, <1>7 DEF P2sInv, P2sType
<1>9. bus' = 0 /\ bus' \in 0..MaxBus
  BY RegisterAssumption DEF BothEdges
<1>10. OnTheWay'
  <2> DEFINE a1 == p2s'.register_ready
  <2>1. /\ a1 \in BOOLEAN /\ a1 = (~f /\ (write \/ a))
        /\ ready = a \/ ready = a1
        /\ done = p2s.register_done \/ done = p2s.register_readyRR
    BY <1>2, <1>3, <1>4
  <2> HIDE DEF a1, bb, u
  <2>2. /\ OneChange(a1, ready, p2s.register_readyR, p2s.register_readyRR, done,
                     p2s.register_doneR)
        /\ Within(a1, ready, p2s.register_readyR, p2s.register_readyRR, done,
                  p2s.register_doneR, since', 0)
    <3> DEFINE b == p2s.register_readyR
               c == p2s.register_readyRR
               d == p2s.register_done
               e == p2s.register_doneR
               s == since
               t == since'
               n == bus
    <3>1. /\ a \in BOOLEAN /\ b \in BOOLEAN /\ c \in BOOLEAN /\ d \in BOOLEAN
          /\ e \in BOOLEAN /\ f \in BOOLEAN /\ s \in Nat /\ n \in 0..MaxBus
          /\ OneChange(a, b, c, d, e, f) /\ Within(a, b, c, d, e, f, s, n)
      BY DEF P2sInv, P2sType, OnTheWay
    <3>2. /\ n < MaxBus /\ t \in Nat
          /\ write => ~a /\ ~b /\ ~c /\ ~d /\ ~e /\ ~f
          /\ IF write THEN t = 0 ELSE t <= s + 1
      BY <1>5
    <3>3. /\ a1 = (~f /\ (write \/ a))
          /\ ready = a \/ ready = a1
          /\ done = d \/ done = c
      BY <2>1
    <3> HIDE DEF a, b, c, d, e, f, s, t, n, write
    <3>4. OneChange(a1, ready, b, c, done, e)
      BY <1>7, <2>1, <3>1, <3>2, <3>3 DEF OneChange
    <3>5. write => Within(a1, ready, b, c, done, e, t, 0)
      BY <1>7, <2>1, <3>1, <3>2, <3>3, <3>4, RegisterAssumption DEF OneChange, Within
    <3>6. ~write => Within(a1, ready, b, c, done, e, t, 0)
      <4> SUFFICES ASSUME ~write PROVE Within(a1, ready, b, c, done, e, t, 0)
        OBVIOUS
      <4>1. t <= s + 1 /\ t \in Nat
        BY <3>2
      <4>2. CASE a /\ f
        <5>1. a1 = FALSE /\ b /\ c /\ d /\ e /\ s <= 3 * MaxBus + 2
          BY <3>1, <3>3, <4>2 DEF OneChange, Within
        <5>2. done = TRUE
          BY <3>1, <3>3, <5>1
        <5> QED
          BY <1>7, <3>1, <3>2, <4>1, <5>1, <5>2, RegisterAssumption DEF Within
      <4>3. CASE a /\ ~f
        <5>1. a1 = TRUE /\ ready = TRUE
          BY <1>7, <3>1, <3>3, <4>3
        <5>2. done = d \/ done = c
          BY <3>3
        <5> QED
          BY <1>7, <3>1, <3>2, <4>1, <4>3, <5>1, <5>2, RegisterAssumption DEF OneChange, Within
      <4>4. CASE ~a
        BY <1>7, <2>1, <3>1, <3>2, <3>3, <4>4, RegisterAssumption DEF OneChange, Within
      <4> QED
        BY <3>1, <4>2, <4>3, <4>4
    <3> QED
      BY <3>4, <3>5, <3>6 DEF b, c, d, e, t
  <2> QED
    BY <1>4, <1>9, <2>2 DEF OnTheWay, a1
<1> QED
  BY <1>5, <1>8, <1>9, <1>10 DEF P2sInv

\* Whatever the words and the ratio of the clocks, up to MaxBus cycles of the bus
\* for one of the design, the design sees a word the processor wrote and never a
\* mixture of two, when two writes are six cycles of the design and five of the
\* bus apart (wb_register_ppc2simulink.v).
THEOREM FromProcessorWhole ==
  ASSUME 6 * MaxBus + 5 <= WriteGap
  PROVE  Spec => []WholeFromProcessor
<1>1. Init => P2sInv
  BY RegisterAssumption DEF Init, P2sInv, P2sType, OnTheWay, OneChange, Within
<1>2. P2sInv /\ [Next]_vars => P2sInv'
  <2> SUFFICES ASSUME P2sInv, [Next]_vars PROVE P2sInv'
    OBVIOUS
  <2>1. CASE BusEdge
    BY <2>1, P2sBusEdgeInv
  <2>2. CASE UserEdge
    BY <2>2, P2sUserEdgeInv
  <2>3. CASE BothEdges
    BY <2>3, P2sBothEdgesInv
  <2>4. CASE UNCHANGED vars
    BY <2>4 DEF vars, P2sInv, P2sType, OnTheWay
  <2> QED BY <2>1, <2>2, <2>3, <2>4 DEF Next
<1>3. P2sInv => WholeFromProcessor
  BY RegisterAssumption DEF P2sInv, P2sType, WholeFromProcessor
<1> QED BY <1>1, <1>2, <1>3, PTL DEF Spec
=============================================================================
