------------------------------ MODULE TgePort ------------------------------
(***************************************************************************)
(* The CPU port of the 10 GbE core, clock edge by clock edge: the receive  *)
(* handshake of tge_rx.v, the transmit handshake of tge_tx.v and the       *)
(* registers of wb_attach.v that join them to the CPU.  CasperEth takes    *)
(* the exchanges of buffers that this module carries out for granted.      *)
(*                                                                         *)
(* A step is an edge of the MAC's clock, of the CPU's clock, or of both.   *)
(* The MAC's clock is the faster one (156.25 MHz against the bus), so one  *)
(* of its edges lies within every cycle of the CPU.  At an edge of both a  *)
(* bit of the other domain is sampled old or new, a size as any number.    *)
(*                                                                         *)
(* A word of a frame is [frame, pos, len, good]; frames have numbers.      *)
(***************************************************************************)
EXTENDS Integers, Sequences

CONSTANTS
  Loads,      \* sequences of the numbers of words of the frames that arrive
  MaxTx,      \* bound on the frames the CPU sends, of one and two words in turn
  Depth,      \* words in a buffer, 256
  MaxWords,   \* the longest frame the driver takes
  Pause       \* CPU cycles from the acknowledgement to the next look, at least

ASSUME PortAssumption ==
  /\ Loads \subseteq Seq(Nat \ {0}) /\ MaxTx \in Nat
  /\ Depth \in Nat /\ MaxWords \in 1..(Depth - 2) /\ Pause \in Nat

VARIABLES
  load,     \* the frames that arrive in this behaviour
  rx,       \* tge_rx.v, MAC clock
  rxc,      \* tge_rx.v, CPU clock
  tx,       \* tge_tx.v, MAC clock
  txc,      \* tge_tx.v, CPU clock
  reg,      \* wb_attach.v
  rxmem, txmem,  \* the two halves of cpu_rx_buffer and of cpu_tx_buffer
  line,     \* the frame arriving: the word it is at, or the last frame
  inside,   \* TRUE: the MAC's clock has ticked since the CPU's last did
  cpu,      \* the driver
  presented, taken,  \* history: the last frame shown to and taken by the CPU
  wire, nwire        \* history: the words of the frame being or last sent; how many

vars == <<load, rx, rxc, tx, txc, reg, rxmem, txmem, line, inside, cpu, presented, taken,
          wire, nwire>>

Word(f, p, n, g) == [frame |-> f, pos |-> p, len |-> n, good |-> g]
NoWord == Word(0, 0, 0, FALSE)
Whole(f, n) == [p \in 1..n |-> Word(f, p, n, TRUE)]
TxLen(f) == 2 - (f % 2)

Init ==
  /\ load \in Loads
  /\ rx = [cpu_state |-> "BUFFERING", cpu_addr |-> 0, sel |-> 0, frame_bypass |-> FALSE,
           cpu_size |-> 0, cpu_buf_ready |-> FALSE, cpu_ackR |-> FALSE, cpu_ackRR |-> FALSE]
  /\ rxc = [sel |-> 0, selR |-> 0, readyR |-> FALSE, readyRR |-> FALSE, cpu_size_stable |-> 0]
  /\ tx = [tx_state |-> "IDLE", tx_size |-> 0, mac_cpu_ack |-> FALSE,
           pendingR |-> FALSE, pendingRR |-> FALSE]
  /\ txc = [cpu_buffer_sel |-> 0, mac_pending |-> FALSE, ack_low_wait |-> FALSE,
            cpu_tx_size |-> 0, ackR |-> FALSE, ackRR |-> FALSE]
  /\ reg = [cpu_tx_size |-> 0, cpu_tx_ready |-> FALSE, cpu_rx_ack |-> FALSE]
  /\ rxmem = [b \in {0, 1} |-> [a \in 0..(Depth - 1) |-> NoWord]]
  /\ txmem = [b \in {0, 1} |-> [a \in 0..1 |-> NoWord]]
  /\ line = NoWord /\ inside = FALSE
  /\ cpu = [pc |-> "poll", n |-> 0, pause |-> 0, packet |-> <<>>, sent |-> 0]
  /\ presented = 0 /\ taken = 0 /\ wire = <<>> /\ nwire = 0

-----------------------------------------------------------------------------
\* The line.  The word of this cycle is the next one of a frame, or none, or the
\* first one of a frame after a cycle without.
Arriving(w) ==
  \/ line.pos < line.len /\ w = [line EXCEPT !.pos = @ + 1] /\ line' = w
  \/ line.pos = line.len /\ w = NoWord /\ line' = [NoWord EXCEPT !.frame = line.frame]
  \/ /\ line.len = 0 /\ w # NoWord /\ w.frame = line.frame + 1 /\ line' = w

\* Mutant: the acknowledgement need not have ended.
cpu_buffer_free_early == rx.cpu_size = 0

\* tge_rx.v: is the buffer of the CPU free?
cpu_buffer_free == rx.cpu_size = 0 /\ ~rx.cpu_ackRR

Swaps == rx.cpu_state = "WAIT" /\ cpu_buffer_free

\* An edge of the MAC's clock in the receiver, with the word w on the line and
\* the acknowledgement sampled as ack.  The last word of a frame says whether it
\* was good.
RxMacEdge(w, ack) ==
  LET dvld == w # NoWord
      valid == dvld /\ w.pos = w.len /\ w.good
      invalid == dvld /\ w.pos = w.len /\ ~w.good
      full == rx.cpu_addr = Depth - 1
      buffering == rx.cpu_state = "BUFFERING"
  IN rx' = [cpu_state |->
              IF buffering THEN IF valid THEN "WAIT" ELSE "BUFFERING"
              ELSE IF Swaps THEN "BUFFERING" ELSE "WAIT",
            cpu_addr |->
              IF buffering
                THEN IF invalid \/ (valid /\ rx.frame_bypass) THEN 0
                     ELSE IF dvld /\ ~full THEN rx.cpu_addr + 1 ELSE rx.cpu_addr
                ELSE IF Swaps THEN 0 ELSE rx.cpu_addr,
            sel |-> IF Swaps THEN 1 - rx.sel ELSE rx.sel,
            frame_bypass |->
              /\ ~(valid \/ invalid)
              /\ rx.frame_bypass \/ (dvld /\ (buffering => full)),
            cpu_size |-> IF Swaps THEN rx.cpu_addr ELSE IF rx.cpu_ackRR THEN 0 ELSE rx.cpu_size,
            cpu_buf_ready |-> Swaps \/ (~rx.cpu_ackRR /\ rx.cpu_buf_ready),
            cpu_ackR |-> ack, cpu_ackRR |-> rx.cpu_ackR]

\* The word goes to the half the CPU does not see, also while a frame waits there.
RxStore(w) ==
  rxmem' = IF w = NoWord THEN rxmem ELSE [rxmem EXCEPT ![1 - rx.sel][rx.cpu_addr] = w]

\* Mutant: the size is taken over without waiting for cpu_buf_ready.
RxCpuEdgeUngated(sel, ready, size) ==
  rxc' = [sel |-> sel, selR |-> rxc.sel, readyR |-> ready, readyRR |-> rxc.readyR,
          cpu_size_stable |-> size]

\* An edge of the CPU's clock in the receiver.
RxCpuEdge(sel, ready, size) ==
  rxc' = [sel |-> sel, selR |-> rxc.sel, readyR |-> ready, readyRR |-> rxc.readyR,
          cpu_size_stable |-> IF rxc.readyRR THEN size ELSE rxc.cpu_size_stable]

-----------------------------------------------------------------------------
\* An edge of the MAC's clock in the transmitter: CPU frames come before those of
\* the fabric (APP); the MAC asks for the first word when it likes.
TxMacEdge(pending) ==
  LET word == txmem[1 - txc.cpu_buffer_sel][Len(wire)]
      start == ~tx.mac_cpu_ack /\ tx.pendingRR
      last == tx.tx_size = 1
      ack == tx.mac_cpu_ack /\ tx.pendingRR
      to(state, size, a) == tx' = [tx_state |-> state, tx_size |-> size, mac_cpu_ack |-> a,
                                   pendingR |-> pending, pendingRR |-> tx.pendingR]
  IN \/ /\ tx.tx_state = "IDLE" /\ start
        /\ IF txc.cpu_tx_size # 0
             THEN to("CPU_WAIT", txc.cpu_tx_size, ack) /\ wire' = <<>>
             ELSE to("IDLE", tx.tx_size, TRUE) /\ UNCHANGED wire
        /\ UNCHANGED nwire
     \/ /\ tx.tx_state = "IDLE" /\ ~start
        /\ to("IDLE", tx.tx_size, ack) \/ to("APP", tx.tx_size, ack)
        /\ UNCHANGED <<wire, nwire>>
     \/ /\ tx.tx_state = "APP"
        /\ to("IDLE", tx.tx_size, ack) \/ to("APP", tx.tx_size, ack)
        /\ UNCHANGED <<wire, nwire>>
     \/ tx.tx_state = "CPU_WAIT" /\ to("CPU_WAIT", tx.tx_size, ack) /\ UNCHANGED <<wire, nwire>>
     \/ /\ tx.tx_state \in {"CPU_WAIT", "SEND_CPU"}
        /\ IF last THEN to("IDLE", tx.tx_size, TRUE) ELSE to("SEND_CPU", tx.tx_size - 1, ack)
        /\ wire' = Append(wire, word)
        /\ nwire' = IF last THEN nwire + 1 ELSE nwire

\* Mutant: the buffers are exchanged while the MAC still sends.
cpu_tx_done_early == ~txc.ack_low_wait /\ reg.cpu_tx_ready

\* The size is taken over and the buffers are exchanged.
cpu_tx_done == ~txc.ack_low_wait /\ ~txc.mac_pending /\ reg.cpu_tx_ready

\* mac_pending after the next edge.
Pending ==
  IF txc.ack_low_wait THEN txc.mac_pending
  ELSE ~txc.ackRR /\ (txc.mac_pending \/ reg.cpu_tx_ready)

\* An edge of the CPU's clock in the transmitter.
TxCpuEdge(ack) ==
  txc' = [ackR |-> ack, ackRR |-> txc.ackR, mac_pending |-> Pending,
          cpu_buffer_sel |-> IF cpu_tx_done THEN 1 - txc.cpu_buffer_sel ELSE txc.cpu_buffer_sel,
          cpu_tx_size |-> IF cpu_tx_done THEN reg.cpu_tx_size ELSE txc.cpu_tx_size,
          ack_low_wait |-> txc.ackRR]

\* Mutant: the acknowledgement lasts.
RegEdgeStuck(op, n) ==
  reg' = [cpu_tx_size |-> IF op = "size" THEN n ELSE IF cpu_tx_done THEN 0 ELSE reg.cpu_tx_size,
          cpu_tx_ready |-> op = "size" \/ (~cpu_tx_done /\ reg.cpu_tx_ready),
          cpu_rx_ack |-> op = "ack" \/ reg.cpu_rx_ack]

\* wb_attach.v: a write of the CPU comes after what the core does in that cycle.
\* The acknowledgement ends when the size of the *transmit* buffer is 0.
RegEdge(op, n) ==
  reg' = [cpu_tx_size |-> IF op = "size" THEN n ELSE IF cpu_tx_done THEN 0 ELSE reg.cpu_tx_size,
          cpu_tx_ready |-> op = "size" \/ (~cpu_tx_done /\ reg.cpu_tx_ready),
          cpu_rx_ack |-> op = "ack" \/ (reg.cpu_tx_size # 0 /\ reg.cpu_rx_ack)]

-----------------------------------------------------------------------------
\* The driver (casper_rx_packet, casper_netif_output_impl), one bus access at a
\* time; between two of them any number of cycles may pass.
cpu_rx_size == IF reg.cpu_rx_ack THEN 0 ELSE rxc.cpu_size_stable
To(pc) == cpu' = [cpu EXCEPT !.pc = pc]
NoOp == RegEdge("none", 0)

Idle ==
  /\ cpu' = IF cpu.pc = "pause" /\ cpu.pause > 0 THEN [cpu EXCEPT !.pause = @ - 1] ELSE cpu
  /\ NoOp /\ UNCHANGED <<txmem, taken>>

Poll ==
  /\ cpu.pc = "poll"
  /\ IF cpu_rx_size = 0 THEN To("send")
     ELSE cpu' = [cpu EXCEPT !.pc = IF cpu_rx_size > MaxWords THEN "ack" ELSE "read",
                             !.n = cpu_rx_size, !.packet = <<>>]
  /\ NoOp /\ UNCHANGED <<txmem, taken>>

Read ==
  /\ cpu.pc = "read"
  /\ cpu' = [cpu EXCEPT !.packet = Append(@, rxmem[rxc.selR][Len(@)]),
                        !.pc = IF Len(cpu.packet) + 1 = cpu.n THEN "ack" ELSE "read"]
  /\ NoOp /\ UNCHANGED <<txmem, taken>>

\* The packet is acknowledged, taken or dropped.
Acknowledge ==
  /\ cpu.pc = "ack"
  /\ cpu' = [cpu EXCEPT !.pc = "pause", !.pause = Pause, !.packet = <<>>, !.n = 0]
  /\ taken' = presented
  /\ RegEdge("ack", 0) /\ UNCHANGED txmem

Resume ==
  /\ cpu.pc = "pause" /\ cpu.pause = 0 /\ To("send")
  /\ NoOp /\ UNCHANGED <<txmem, taken>>

\* Nothing to send, or the transmit buffer is not free.
SendNothing ==
  /\ cpu.pc = "send" /\ To("poll")
  /\ NoOp /\ UNCHANGED <<txmem, taken>>

StartSend ==
  /\ cpu.pc = "send" /\ cpu.sent < MaxTx /\ reg.cpu_tx_size = 0
  /\ cpu' = [cpu EXCEPT !.pc = "fill", !.sent = @ + 1, !.n = 0]
  /\ NoOp /\ UNCHANGED <<txmem, taken>>

Fill ==
  /\ cpu.pc = "fill"
  /\ txmem' = [txmem EXCEPT ![txc.cpu_buffer_sel][cpu.n] =
                 Word(cpu.sent, cpu.n + 1, TxLen(cpu.sent), TRUE)]
  /\ cpu' = [cpu EXCEPT !.n = @ + 1, !.pc = IF cpu.n + 1 = TxLen(cpu.sent) THEN "size" ELSE @]
  /\ NoOp /\ UNCHANGED taken

StoreSize ==
  /\ cpu.pc = "size" /\ cpu' = [cpu EXCEPT !.pc = "poll", !.n = 0]
  /\ RegEdge("size", TxLen(cpu.sent)) /\ UNCHANGED <<txmem, taken>>

Access == Poll \/ Read \/ Acknowledge \/ Resume \/ SendNothing \/ StartSend \/ Fill \/ StoreSize

-----------------------------------------------------------------------------
MacSide(ack, pending) ==
  /\ \E w \in {NoWord, [line EXCEPT !.pos = @ + 1]}
              \cup {Word(f, 1, load[f], g) : f \in DOMAIN load, g \in BOOLEAN} :
       Arriving(w) /\ RxMacEdge(w, ack) /\ RxStore(w)
  /\ presented' = IF Swaps /\ rx.cpu_addr # 0 THEN rxmem[1 - rx.sel][0].frame ELSE presented
  /\ TxMacEdge(pending)

CpuSide(sel, ready, size, ack) ==
  RxCpuEdge(sel, ready, size) /\ TxCpuEdge(ack)

MacEdge ==
  /\ MacSide(reg.cpu_rx_ack, txc.mac_pending)
  /\ inside' = TRUE
  /\ UNCHANGED <<load, rxc, txc, reg, txmem, cpu, taken>>

CpuEdge(step) ==
  /\ inside /\ inside' = FALSE
  /\ CpuSide(rx.sel, rx.cpu_buf_ready, rx.cpu_size, tx.mac_cpu_ack) /\ step
  /\ UNCHANGED <<load, rx, tx, rxmem, line, presented, wire, nwire>>

\* Both: what is sampled is old or new, and a size that changes is any number.
BothEdges(step) ==
  /\ inside /\ inside' = FALSE /\ UNCHANGED load
  /\ step
  /\ \E ack \in {reg.cpu_rx_ack, reg'.cpu_rx_ack}, pending \in {txc.mac_pending, Pending} :
       MacSide(ack, pending)
  /\ \E sel \in {rx.sel, rx'.sel}, ready \in {rx.cpu_buf_ready, rx'.cpu_buf_ready},
        size \in IF rx'.cpu_size = rx.cpu_size THEN {rx.cpu_size} ELSE 0..(Depth - 1),
        ack \in {tx.mac_cpu_ack, tx'.mac_cpu_ack} :
       CpuSide(sel, ready, size, ack)

Next ==
  \/ MacEdge
  \/ CpuEdge(Idle) \/ CpuEdge(Access)
  \/ BothEdges(Idle) \/ BothEdges(Access)

Spec == Init /\ [][Next]_vars

\* Both clocks run, and their edges do not coincide for ever; the CPU goes on with
\* its next access, the MAC ends a frame of the fabric and asks for the first word
\* of one of the CPU.
FairSpec ==
  /\ Spec
  /\ WF_vars(MacEdge) /\ WF_vars(CpuEdge(Idle)) /\ SF_vars(CpuEdge(Access))
  /\ WF_vars(tx.tx_state \in {"APP", "CPU_WAIT"} /\ MacEdge /\ tx'.tx_state # tx.tx_state)

-----------------------------------------------------------------------------
\* RxWhole: what the driver reads between a size and its acknowledgement is one
\* good frame, whole, that it has not had before; and it acknowledges no frame
\* that it was not shown.
RxWhole ==
  cpu.pc = "ack" =>
    /\ presented # taken
    /\ cpu.n <= MaxWords => cpu.packet = Whole(presented, cpu.n)

\* RxNotLost: the next frame is shown only when the driver has acknowledged the
\* one before.
RxNotLost == [][presented' # presented => taken = presented]_vars

\* TxWhole: the frames that leave are those the CPU wrote, in order and whole: the
\* buffer is not exchanged while the MAC reads from it.
TxWhole ==
  IF tx.tx_state \in {"CPU_WAIT", "SEND_CPU"}
    THEN wire = SubSeq(Whole(nwire + 1, TxLen(nwire + 1)), 1, Len(wire))
    ELSE nwire > 0 => wire = Whole(nwire, TxLen(nwire))

\* RxShown: a frame that waits for the CPU's buffer gets it: no acknowledgement is
\* lost between the clocks, and none lasts.
RxShown == rx.cpu_state = "WAIT" ~> rx.cpu_state = "BUFFERING"
=============================================================================
