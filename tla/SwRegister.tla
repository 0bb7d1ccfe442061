----------------------------- MODULE SwRegister -----------------------------
(***************************************************************************)
(* A pair of software registers of a design: wb_register_simulink2ppc      *)
(* ("To Processor") and wb_register_ppc2simulink ("From Processor"), each  *)
(* a handshake between the bus clock and the clock of the design.  The     *)
(* fields of s2p and p2s are the flip-flops of the two modules.            *)
(*                                                                         *)
(* A step is an edge of the bus clock, of the design's clock, or of both   *)
(* at once.  Then a flip-flop that samples the other domain gets the old   *)
(* or the new value of a bit, and a word that is changing comes out Torn.  *)
(***************************************************************************)
EXTENDS Naturals

CONSTANTS
  Values,     \* the words
  Zero,       \* a word, the value of a flip-flop after configuration
  InitVal,    \* INIT_VAL
  Torn,       \* a mixture of the bits of two words
  NoWrite,    \* a bus cycle without a write
  WriteGap,   \* bus cycles between two writes to a register, at least
  MaxBus      \* bus cycles between two cycles of the design, at most

ASSUME RegisterAssumption ==
  /\ Zero \in Values /\ InitVal \in Values /\ Torn \notin Values /\ NoWrite \notin Values
  /\ WriteGap \in Nat /\ MaxBus \in Nat \ {0}

VARIABLES
  s2p,           \* the flip-flops of wb_register_simulink2ppc
  user_data_in,  \* what the design shows it
  p2s,           \* the flip-flops of wb_register_ppc2simulink
  written,       \* TRUE: the processor has written to it
  since,         \* bus cycles since the last write, up to WriteGap
  bus            \* bus cycles since the last cycle of the design

vars == <<s2p, user_data_in, p2s, written, since, bus>>

Init ==
  /\ s2p = [register_request |-> FALSE, register_requestR |-> FALSE,
            register_requestRR |-> FALSE, register_ready |-> FALSE,
            register_readyR |-> FALSE, register_readyRR |-> FALSE,
            user_data_in_reg |-> Zero, register_buffer |-> Zero]
  /\ user_data_in \in Values
  /\ p2s = [register_ready |-> FALSE, register_readyR |-> FALSE,
            register_readyRR |-> FALSE, register_done |-> FALSE,
            register_doneR |-> FALSE, register_doneRR |-> FALSE,
            reg_buffer |-> InitVal, user_data_out_reg |-> Zero]
  /\ written = FALSE /\ since = WriteGap /\ bus = 0

-----------------------------------------------------------------------------
\* Mutant: the buffer is latched without waiting for the handshake.
S2pBusEdgeAlways(r, ready, data) ==
  [r EXCEPT !.register_readyR = ready, !.register_readyRR = r.register_readyR,
            !.register_request = ~r.register_readyRR, !.register_buffer = data]

\* Mutant: the next word is requested while the design still answers the last
\* request, and its answer then never goes away.
S2pBusEdgeStuck(r, ready, data) ==
  [r EXCEPT !.register_readyR = ready, !.register_readyRR = r.register_readyR,
            !.register_request = TRUE,
            !.register_buffer =
              IF r.register_readyRR /\ r.register_request THEN data ELSE @]

\* An edge of the bus clock in wb_register_simulink2ppc, which samples ready and
\* data from the other domain.  The request ends when ready arrives, with the
\* data, and starts again when ready has gone; a reset makes no difference.
S2pBusEdge(r, ready, data) ==
  [r EXCEPT !.register_readyR = ready, !.register_readyRR = r.register_readyR,
            !.register_request = ~r.register_readyRR,
            !.register_buffer =
              IF r.register_readyRR /\ r.register_request THEN data ELSE @]

\* An edge of the design's clock, which samples request.
S2pUserEdge(r, request, in) ==
  [r EXCEPT !.register_requestR = request, !.register_requestRR = r.register_requestR,
            !.register_ready = r.register_requestRR,
            !.user_data_in_reg =
              IF r.register_requestRR /\ ~r.register_ready THEN in ELSE @]

\* Mutant: ready is a pulse of one cycle.
P2sBusEdgePulse(r, done, w) ==
  [r EXCEPT !.register_doneR = done, !.register_doneRR = r.register_doneR,
            !.reg_buffer = IF w = NoWrite THEN @ ELSE w,
            !.register_ready = w # NoWrite]

\* An edge of the bus clock in wb_register_ppc2simulink, with or without a write.
\* The test of register_doneRR comes last: it also undoes a write's request.
P2sBusEdge(r, done, w) ==
  [r EXCEPT !.register_doneR = done, !.register_doneRR = r.register_doneR,
            !.reg_buffer = IF w = NoWrite THEN @ ELSE w,
            !.register_ready = ~r.register_doneRR /\ (w # NoWrite \/ @)]

\* Mutant: the design follows the buffer all the time.
P2sUserEdgeAlways(r, ready, data) ==
  [r EXCEPT !.register_readyR = ready, !.register_readyRR = r.register_readyR,
            !.register_done = r.register_readyRR, !.user_data_out_reg = data]

\* An edge of the design's clock.
P2sUserEdge(r, ready, data) ==
  [r EXCEPT !.register_readyR = ready, !.register_readyRR = r.register_readyR,
            !.register_done = r.register_readyRR,
            !.user_data_out_reg = IF r.register_readyRR THEN data ELSE @]

-----------------------------------------------------------------------------
\* What a word may be sampled as while it changes from v to w.
Sampled(v, w) == IF v = w THEN {v} ELSE {v, w, Torn}

\* A cycle of the bus: it may write, and the design's clock is not too far behind.
BusCycle(w) ==
  /\ bus < MaxBus
  /\ w \in Values => since = WriteGap
  /\ since' = IF w \in Values THEN 0 ELSE IF since < WriteGap THEN since + 1 ELSE since
  /\ written' = (written \/ w \in Values)

BusEdge ==
  /\ \E w \in Values \cup {NoWrite} :
       BusCycle(w) /\ p2s' = P2sBusEdge(p2s, p2s.register_done, w)
  /\ s2p' = S2pBusEdge(s2p, s2p.register_ready, s2p.user_data_in_reg)
  /\ bus' = bus + 1
  /\ UNCHANGED user_data_in

UserEdge ==
  /\ s2p' = S2pUserEdge(s2p, s2p.register_request, user_data_in)
  /\ p2s' = P2sUserEdge(p2s, p2s.register_ready, p2s.reg_buffer)
  /\ user_data_in' \in Values
  /\ bus' = 0
  /\ UNCHANGED <<written, since>>

\* Both clocks: every sampled bit is old or new, every sampled word is as it may be.
S2pBothEdges ==
  LET b == S2pBusEdge(s2p, s2p.register_ready, s2p.user_data_in_reg)
      u == S2pUserEdge(s2p, s2p.register_request, user_data_in)
  IN \E request \in {s2p.register_request, b.register_request},
        ready \in {s2p.register_ready, u.register_ready},
        data \in Sampled(s2p.user_data_in_reg, u.user_data_in_reg) :
       s2p' = S2pUserEdge(S2pBusEdge(s2p, ready, data), request, user_data_in)

P2sBothEdges(w) ==
  LET b == P2sBusEdge(p2s, p2s.register_done, w)
      u == P2sUserEdge(p2s, p2s.register_ready, p2s.reg_buffer)
  IN \E done \in {p2s.register_done, u.register_done},
        ready \in {p2s.register_ready, b.register_ready},
        data \in Sampled(p2s.reg_buffer, b.reg_buffer) :
       p2s' = P2sUserEdge(P2sBusEdge(p2s, done, w), ready, data)

BothEdges ==
  /\ \E w \in Values \cup {NoWrite} : BusCycle(w) /\ P2sBothEdges(w)
  /\ S2pBothEdges
  /\ user_data_in' \in Values
  /\ bus' = 0

Next == BusEdge \/ UserEdge \/ BothEdges

Spec == Init /\ [][Next]_vars

\* Both clocks run; an edge that changes nothing is an edge all the same.
FairSpec ==
  /\ Spec
  /\ WF_vars(BusEdge \/ BothEdges) /\ WF_vars(UserEdge \/ BothEdges)

-----------------------------------------------------------------------------
\* The flip-flops are bits and words; a word that crosses may be torn.
TypeOK ==
  /\ s2p \in [register_request : BOOLEAN, register_requestR : BOOLEAN,
              register_requestRR : BOOLEAN, register_ready : BOOLEAN,
              register_readyR : BOOLEAN, register_readyRR : BOOLEAN,
              user_data_in_reg : Values, register_buffer : Values \cup {Torn}]
  /\ p2s \in [register_ready : BOOLEAN, register_readyR : BOOLEAN,
              register_readyRR : BOOLEAN, register_done : BOOLEAN,
              register_doneR : BOOLEAN, register_doneRR : BOOLEAN,
              reg_buffer : Values, user_data_out_reg : Values \cup {Torn}]
  /\ user_data_in \in Values /\ written \in BOOLEAN
  /\ since \in 0..WriteGap /\ bus \in 0..MaxBus

\* The six flip-flops of a handshake, in the order a change travels through them
\* and back, have at most one change under way.
OneChange(a, b, c, d, e, f) ==
  \/ a = b /\ b = c /\ c = d /\ d = e
  \/ b = c /\ c = d /\ d = e /\ e = f
  \/ a = b /\ c = d /\ d = e /\ e = f
  \/ a = b /\ b = c /\ d = e /\ e = f
  \/ a = b /\ b = c /\ c = d /\ e = f

\* OneRound: the handshake of wb_register_simulink2ppc never has two rounds under
\* way, whatever the two clocks do: the request of the next one starts when the
\* last answer has been seen to end.
OneRound ==
  OneChange(s2p.register_request, s2p.register_requestR, s2p.register_requestRR,
            s2p.register_ready, s2p.register_readyR, s2p.register_readyRR)

\* WholeToProcessor: the processor never reads a mixture of two words of the
\* design, whatever the ratio of the clocks.
WholeToProcessor == s2p.register_buffer # Torn

\* WholeFromProcessor: the design never sees a mixture of two words the processor
\* wrote, when writes are WriteGap bus cycles apart.
WholeFromProcessor == p2s.user_data_out_reg # Torn

\* ShowsInput: a word the design keeps showing is in the end what the processor
\* reads: the handshake goes round for ever.
ShowsInput ==
  \A v \in Values : <>[](user_data_in = v) => <>[](s2p.register_buffer = v)

\* Arrives: the last word written is in the end what the design sees: no write is
\* undone by the end of the handshake of the one before.
Arrives ==
  \A v \in Values : <>[](written /\ p2s.reg_buffer = v) => <>[](p2s.user_data_out_reg = v)
=============================================================================
