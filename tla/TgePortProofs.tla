--------------------------- MODULE TgePortProofs ----------------------------
(***************************************************************************)
(* The frames that leave through the CPU port are those the CPU wrote,     *)
(* whole and in order, whatever the two clocks do.                         *)
(***************************************************************************)
EXTENDS TgePort, TLAPS

(***************************************************************************)
(* The inductive invariant of the transmitter.  The seven bits of its      *)
(* handshake, in the order a change travels through them, have at most one *)
(* change under way.  So the buffers are exchanged only while the MAC has  *)
(* nothing of the CPU to send, and each exchange is seen once.             *)
(***************************************************************************)
OneRound(p, r, rr, a, ar, arr, w) ==
  \/ p = r /\ r = rr /\ rr = a /\ a = ar /\ ar = arr
  \/ r = rr /\ rr = a /\ a = ar /\ ar = arr /\ arr = w
  \/ p = r /\ rr = a /\ a = ar /\ ar = arr /\ arr = w
  \/ p = r /\ r = rr /\ a = ar /\ ar = arr /\ arr = w
  \/ p = r /\ r = rr /\ rr = a /\ ar = arr /\ arr = w
  \/ p = r /\ r = rr /\ rr = a /\ a = ar /\ arr = w

Bits ==
  /\ txc.mac_pending \in BOOLEAN /\ tx.pendingR \in BOOLEAN /\ tx.pendingRR \in BOOLEAN
  /\ tx.mac_cpu_ack \in BOOLEAN /\ txc.ackR \in BOOLEAN /\ txc.ackRR \in BOOLEAN
  /\ txc.ack_low_wait \in BOOLEAN /\ reg.cpu_tx_ready \in BOOLEAN

Handshake ==
  OneRound(txc.mac_pending, tx.pendingR, tx.pendingRR, tx.mac_cpu_ack,
           txc.ackR, txc.ackRR, txc.ack_low_wait)

\* The half b of the buffer holds the first k words of frame f.
Holds(mem, b, f, k) ==
  \A a \in 0..(k - 1) : mem[b][a] = Word(f, a + 1, TxLen(f), TRUE)

\* The CPU has begun a frame and not handed it over.
Preparing == reg.cpu_tx_ready \/ cpu.pc \in {"fill", "size"}

\* The frames handed over to the MAC so far.
Handed == IF Preparing THEN cpu.sent - 1 ELSE cpu.sent

\* The half of the CPU.
CpuHalf ==
  /\ cpu = [pc |-> cpu.pc, n |-> cpu.n, pause |-> cpu.pause, packet |-> cpu.packet,
            sent |-> cpu.sent]
  /\ cpu.sent \in Nat /\ (Preparing => cpu.sent > 0)
  /\ txmem = [b \in {0, 1} |-> [a \in {0, 1} |-> txmem[b][a]]]
  /\ txc.cpu_buffer_sel \in {0, 1}
  /\ reg.cpu_tx_size = IF reg.cpu_tx_ready THEN TxLen(cpu.sent) ELSE 0
  /\ reg.cpu_tx_ready => cpu.pc \notin {"fill", "size"}
  /\ cpu.pc = "fill" => /\ cpu.n \in 0..(TxLen(cpu.sent) - 1)
                        /\ Holds(txmem, txc.cpu_buffer_sel, cpu.sent, cpu.n)
  /\ cpu.pc = "size" \/ reg.cpu_tx_ready =>
       Holds(txmem, txc.cpu_buffer_sel, cpu.sent, TxLen(cpu.sent))

\* The half of the MAC: the frame handed over last.
MacHalf ==
  /\ txc.mac_pending => Handed > 0
  /\ Handed > 0 => /\ txc.cpu_tx_size = TxLen(Handed)
                   /\ Holds(txmem, 1 - txc.cpu_buffer_sel, Handed, TxLen(Handed))

\* The first k words of frame f.
Words(f, k) == [i \in 1..k |-> Word(f, i, TxLen(f), TRUE)]

\* The state t of the MAC's side, with the words wr on the line and nw frames
\* sent, fits h frames handed over, the last of them pending if p.
LineAt(t, wr, nw, h, p) ==
  /\ t.tx_state \in {"IDLE", "APP", "CPU_WAIT", "SEND_CPU"}
  /\ nw = IF p /\ ~t.mac_cpu_ack THEN h - 1 ELSE h
  /\ t.tx_state \in {"CPU_WAIT", "SEND_CPU"} =>
       /\ ~t.mac_cpu_ack /\ t.pendingRR
       /\ t.tx_size \in 1..TxLen(h) /\ wr = Words(h, TxLen(h) - t.tx_size)
  /\ t.tx_state \in {"IDLE", "APP"} => (nw > 0 => wr = Words(nw, TxLen(nw)))

TxInv ==
  /\ Bits /\ Handshake /\ CpuHalf /\ MacHalf
  /\ LineAt(tx, wire, nwire, Handed, txc.mac_pending)

(***************************************************************************)
(* Frames and words.                                                       *)
(***************************************************************************)
LEMMA TxLenIs ==
  \A f \in Nat : TxLen(f) \in {1, 2} /\ TxLen(f) \in Nat /\ TxLen(f) >= 1 /\ TxLen(f) <= 2
  BY DEF TxLen

LEMMA NoWords ==
  \A f : Words(f, 0) = <<>>
<1>1. 1..0 = {}
  OBVIOUS
<1> QED
  BY <1>1 DEF Words

\* One more word of a frame.
LEMMA OneMore ==
  ASSUME NEW f, NEW k \in Nat
  PROVE  /\ Len(Words(f, k)) = k
         /\ Append(Words(f, k), Word(f, k + 1, TxLen(f), TRUE)) = Words(f, k + 1)
<1> DEFINE e(i) == Word(f, i, TxLen(f), TRUE)
           S == {e(i) : i \in 1..(k + 1)}
           a == Words(f, k)
           b == Words(f, k + 1)
<1>1. a = [i \in 1..k |-> e(i)] /\ b = [i \in 1..(k + 1) |-> e(i)]
  BY DEF Words
<1>2. \A i \in 1..(k + 1) : e(i) \in S
  OBVIOUS
<1> HIDE DEF e, S, a, b
<1>3. a \in Seq(S) /\ Len(a) = k /\ b \in Seq(S) /\ Len(b) = k + 1 /\ e(k + 1) \in S
  BY <1>1, <1>2
<1>4. Append(a, e(k + 1)) = b
  BY <1>1, <1>3
<1> QED
  BY <1>3, <1>4 DEF a, b, e

LEMMA HandedIs ==
  ASSUME Bits, CpuHalf
  PROVE  Handed \in Nat
  BY DEF Handed, CpuHalf

(***************************************************************************)
(* An edge of the MAC's clock.                                             *)
(***************************************************************************)
LEMMA MacMoves ==
  ASSUME Bits, Handshake, CpuHalf, MacHalf,
         LineAt(tx, wire, nwire, Handed, txc.mac_pending),
         NEW q \in BOOLEAN, TxMacEdge(q)
  PROVE  /\ tx'.pendingR = q /\ tx'.pendingRR = tx.pendingR /\ tx'.mac_cpu_ack \in BOOLEAN
         /\ tx'.mac_cpu_ack => tx.pendingRR
         /\ tx.mac_cpu_ack /\ tx.pendingRR => tx'.mac_cpu_ack
         /\ LineAt(tx', wire', nwire', Handed, txc.mac_pending)
<1> DEFINE h == Handed
           p == txc.mac_pending
           word == txmem[1 - txc.cpu_buffer_sel][Len(wire)]
           ack == tx.mac_cpu_ack /\ tx.pendingRR
           to(state, size, a) == tx' = [tx_state |-> state, tx_size |-> size, mac_cpu_ack |-> a,
                                        pendingR |-> q, pendingRR |-> tx.pendingR]
<1>1. h \in Nat /\ TxLen(h) \in Nat /\ TxLen(h) >= 1
  BY HandedIs, TxLenIs
<1>2. ~tx.mac_cpu_ack /\ tx.pendingRR => p /\ tx.pendingR
  BY DEF Bits, Handshake, OneRound
<1>3. p => h > 0 /\ txc.cpu_tx_size = TxLen(h)
           /\ Holds(txmem, 1 - txc.cpu_buffer_sel, h, TxLen(h))
  BY DEF MacHalf
<1>4. \/ /\ tx.tx_state = "IDLE" /\ ~tx.mac_cpu_ack /\ tx.pendingRR
         /\ IF txc.cpu_tx_size # 0
              THEN to("CPU_WAIT", txc.cpu_tx_size, ack) /\ wire' = <<>>
              ELSE to("IDLE", tx.tx_size, TRUE) /\ UNCHANGED wire
         /\ UNCHANGED nwire
      \/ /\ tx.tx_state \in {"IDLE", "APP"}
         /\ to("IDLE", tx.tx_size, ack) \/ to("APP", tx.tx_size, ack)
         /\ UNCHANGED <<wire, nwire>>
      \/ /\ tx.tx_state = "CPU_WAIT" /\ to("CPU_WAIT", tx.tx_size, ack)
         /\ UNCHANGED <<wire, nwire>>
      \/ /\ tx.tx_state \in {"CPU_WAIT", "SEND_CPU"} /\ tx.tx_size = 1
         /\ to("IDLE", tx.tx_size, TRUE) /\ wire' = Append(wire, word) /\ nwire' = nwire + 1
      \/ /\ tx.tx_state \in {"CPU_WAIT", "SEND_CPU"} /\ tx.tx_size # 1
         /\ to("SEND_CPU", tx.tx_size - 1, ack) /\ wire' = Append(wire, word)
         /\ UNCHANGED nwire
  BY DEF TxMacEdge
<1> HIDE DEF h, p
<1>5. CASE /\ tx.tx_state = "IDLE" /\ ~tx.mac_cpu_ack /\ tx.pendingRR
           /\ IF txc.cpu_tx_size # 0
                THEN to("CPU_WAIT", txc.cpu_tx_size, ack) /\ wire' = <<>>
                ELSE to("IDLE", tx.tx_size, TRUE) /\ UNCHANGED wire
           /\ UNCHANGED nwire
  <2>1. p /\ tx.pendingR /\ h > 0 /\ txc.cpu_tx_size = TxLen(h) /\ ack = FALSE
    BY <1>2, <1>3, <1>5 DEF Bits
  <2>2. /\ tx' = [tx_state |-> "CPU_WAIT", tx_size |-> TxLen(h), mac_cpu_ack |-> FALSE,
                  pendingR |-> q, pendingRR |-> tx.pendingR]
        /\ wire' = <<>> /\ nwire' = nwire
    <3>1. txc.cpu_tx_size # 0
      BY <1>1, <2>1
    <3> QED
      BY <1>5, <2>1, <3>1
  <2>3. Words(h, TxLen(h) - TxLen(h)) = <<>>
    <3>1. TxLen(h) - TxLen(h) = 0
      BY <1>1
    <3> QED
      BY <3>1, NoWords
  <2>4. nwire = h - 1
    BY <1>5, <2>1 DEF LineAt, h, p
  <2>5. LineAt(tx', wire', nwire', h, p)
    BY <1>1, <2>1, <2>2, <2>3, <2>4 DEF LineAt
  <2> QED
    BY <1>5, <2>2, <2>5 DEF h, p
<1>6. CASE /\ tx.tx_state \in {"IDLE", "APP"}
           /\ to("IDLE", tx.tx_size, ack) \/ to("APP", tx.tx_size, ack)
           /\ UNCHANGED <<wire, nwire>>
  <2>1. /\ tx'.tx_state \in {"IDLE", "APP"} /\ tx'.mac_cpu_ack = ack
        /\ tx'.pendingR = q /\ tx'.pendingRR = tx.pendingR
        /\ wire' = wire /\ nwire' = nwire
    BY <1>6
  <2>2. nwire = (IF p /\ ~tx.mac_cpu_ack THEN h - 1 ELSE h)
        /\ (nwire > 0 => wire = Words(nwire, TxLen(nwire)))
    BY <1>6 DEF LineAt, h, p
  <2>3. p /\ tx.mac_cpu_ack => tx.pendingRR
    BY DEF Bits, Handshake, OneRound, p
  <2>4. (p /\ ~ack) <=> (p /\ ~tx.mac_cpu_ack)
    BY <2>3 DEF Bits, p
  <2>5. LineAt(tx', wire', nwire', h, p)
    BY <2>1, <2>2, <2>4 DEF LineAt
  <2> QED
    BY <2>1, <2>5 DEF Bits, h, p
<1>7. CASE /\ tx.tx_state = "CPU_WAIT" /\ to("CPU_WAIT", tx.tx_size, ack)
           /\ UNCHANGED <<wire, nwire>>
  <2>1. ~tx.mac_cpu_ack /\ tx.pendingRR /\ ack = FALSE /\ tx.pendingR
    BY <1>2, <1>7 DEF LineAt, Bits
  <2>2. LineAt(tx', wire', nwire', h, p)
    BY <1>7, <2>1 DEF LineAt, h, p
  <2> QED
    BY <1>7, <2>1, <2>2 DEF h, p
<1>8. ASSUME tx.tx_state \in {"CPU_WAIT", "SEND_CPU"}
      PROVE  /\ ~tx.mac_cpu_ack /\ tx.pendingRR /\ ack = FALSE /\ tx.pendingR /\ p
             /\ nwire = h - 1 /\ tx.tx_size \in 1..TxLen(h) /\ h > 0
             /\ Append(wire, word) = Words(h, TxLen(h) - tx.tx_size + 1)
  <2>1. ~tx.mac_cpu_ack /\ tx.pendingRR /\ ack = FALSE /\ tx.pendingR /\ p
    BY <1>2, <1>8 DEF LineAt, Bits
  <2>2. tx.tx_size \in 1..TxLen(h) /\ wire = Words(h, TxLen(h) - tx.tx_size) /\ nwire = h - 1
    BY <1>8, <2>1 DEF LineAt, h, p
  <2> DEFINE k == TxLen(h) - tx.tx_size
  <2>3. k \in Nat /\ k \in 0..(TxLen(h) - 1) /\ wire = Words(h, k)
    BY <1>1, <2>2
  <2> HIDE DEF k
  <2>4. Len(wire) = k /\ Append(wire, Word(h, k + 1, TxLen(h), TRUE)) = Words(h, k + 1)
    BY <2>3, OneMore
  <2>5. word = Word(h, k + 1, TxLen(h), TRUE)
    BY <1>3, <2>1, <2>3, <2>4 DEF Holds
  <2> QED
    BY <1>3, <2>1, <2>2, <2>4, <2>5 DEF k
<1>9. CASE /\ tx.tx_state \in {"CPU_WAIT", "SEND_CPU"} /\ tx.tx_size = 1
           /\ to("IDLE", tx.tx_size, TRUE) /\ wire' = Append(wire, word) /\ nwire' = nwire + 1
  <2>1. wire' = Words(h, TxLen(h)) /\ nwire' = h
    <3>1. TxLen(h) - 1 + 1 = TxLen(h) /\ h - 1 + 1 = h
      BY <1>1
    <3>2. wire' = Words(h, TxLen(h) - 1 + 1) /\ nwire' = h - 1 + 1
      BY <1>8, <1>9
    <3> QED
      BY <3>1, <3>2
  <2>2. LineAt(tx', wire', nwire', h, p)
    BY <1>9, <2>1 DEF LineAt
  <2> QED
    BY <1>8, <1>9, <2>2 DEF h, p
<1>10. CASE /\ tx.tx_state \in {"CPU_WAIT", "SEND_CPU"} /\ tx.tx_size # 1
            /\ to("SEND_CPU", tx.tx_size - 1, ack) /\ wire' = Append(wire, word)
            /\ UNCHANGED nwire
  <2>1. /\ tx.tx_size - 1 \in 1..TxLen(h)
        /\ TxLen(h) - tx.tx_size + 1 = TxLen(h) - (tx.tx_size - 1)
    <3>1. tx.tx_size \in 1..TxLen(h) /\ tx.tx_size # 1
      BY <1>8, <1>10
    <3> QED
      BY <1>1, <3>1
  <2>2. wire' = Words(h, TxLen(h) - (tx.tx_size - 1)) /\ nwire' = h - 1
    BY <1>8, <1>10, <2>1
  <2>3. LineAt(tx', wire', nwire', h, p)
    BY <1>8, <1>10, <2>1, <2>2 DEF LineAt
  <2> QED
    BY <1>8, <1>10, <2>3 DEF h, p
<1> QED
  BY <1>4, <1>5, <1>6, <1>7, <1>9, <1>10

(***************************************************************************)
(* An edge of the CPU's clock.                                             *)
(***************************************************************************)
CpuShape(c) == c = [pc |-> c.pc, n |-> c.n, pause |-> c.pause, packet |-> c.packet, sent |-> c.sent]

\* A step of the driver that has nothing to do with sending.
Quiet ==
  /\ CpuShape(cpu') /\ cpu'.sent = cpu.sent /\ txmem' = txmem
  /\ \/ cpu'.pc = cpu.pc /\ cpu'.n = cpu.n
     \/ cpu.pc \notin {"fill", "size"} /\ cpu'.pc \notin {"fill", "size"}
  /\ reg'.cpu_tx_size = IF cpu_tx_done THEN 0 ELSE reg.cpu_tx_size
  /\ reg'.cpu_tx_ready = (~cpu_tx_done /\ reg.cpu_tx_ready)

LEMMA DriverStep ==
  ASSUME CpuHalf, Idle \/ Access
  PROVE  Quiet \/ StartSend \/ Fill \/ StoreSize
<1>0. CpuShape(cpu)
  BY DEF CpuHalf, CpuShape
<1>1. CASE Idle
  <2>1. reg'.cpu_tx_size = (IF cpu_tx_done THEN 0 ELSE reg.cpu_tx_size) /\ txmem' = txmem
        /\ reg'.cpu_tx_ready = (~cpu_tx_done /\ reg.cpu_tx_ready)
    BY <1>1 DEF Idle, NoOp, RegEdge
  <2>2. CASE cpu' = cpu
    BY <1>0, <2>1, <2>2 DEF Quiet
  <2>3. CASE cpu' = [cpu EXCEPT !.pause = @ - 1]
    BY <1>0, <2>1, <2>3 DEF Quiet, CpuShape
  <2> QED
    BY <1>1, <2>2, <2>3 DEF Idle
<1>2. CASE Poll \/ Resume \/ SendNothing
  <2>1. reg'.cpu_tx_size = (IF cpu_tx_done THEN 0 ELSE reg.cpu_tx_size) /\ txmem' = txmem
        /\ reg'.cpu_tx_ready = (~cpu_tx_done /\ reg.cpu_tx_ready)
    BY <1>2 DEF Poll, Resume, SendNothing, NoOp, RegEdge
  <2>2. CASE \E x \in {"send", "poll"} : cpu' = [cpu EXCEPT !.pc = x] /\ cpu.pc \notin {"fill", "size"}
    BY <1>0, <2>1, <2>2 DEF Quiet, CpuShape
  <2>3. CASE \E x \in {"ack", "read"} : cpu.pc = "poll" /\
               cpu' = [cpu EXCEPT !.pc = x, !.n = cpu_rx_size, !.packet = <<>>]
    BY <1>0, <2>1, <2>3 DEF Quiet, CpuShape
  <2>4. CASE Poll
    <3>1. CASE cpu_rx_size = 0
      BY <2>2, <2>4, <3>1 DEF Poll, To
    <3>2. CASE cpu_rx_size # 0 /\ cpu_rx_size > MaxWords
      BY <2>3, <2>4, <3>2 DEF Poll
    <3>3. CASE cpu_rx_size # 0 /\ ~(cpu_rx_size > MaxWords)
      BY <2>3, <2>4, <3>3 DEF Poll
    <3> QED
      BY <3>1, <3>2, <3>3
  <2>5. CASE Resume \/ SendNothing
    BY <2>2, <2>5 DEF Resume, SendNothing, To
  <2> QED
    BY <1>2, <2>4, <2>5
<1>3. CASE Read
  <2>1. reg'.cpu_tx_size = (IF cpu_tx_done THEN 0 ELSE reg.cpu_tx_size) /\ txmem' = txmem
        /\ reg'.cpu_tx_ready = (~cpu_tx_done /\ reg.cpu_tx_ready)
    BY <1>3 DEF Read, NoOp, RegEdge
  <2>2. \E x \in {"ack", "read"} : \E y :
          cpu' = [cpu EXCEPT !.packet = y, !.pc = x] /\ cpu.pc = "read"
    <3>1. \E x \in {"ack", "read"} :
            cpu' = [cpu EXCEPT !.packet = Append(@, rxmem[rxc.selR][Len(@)]), !.pc = x]
      <4>1. CASE Len(cpu.packet) + 1 = cpu.n
        BY <1>3, <4>1 DEF Read
      <4>2. CASE Len(cpu.packet) + 1 # cpu.n
        BY <1>3, <4>2 DEF Read
      <4> QED
        BY <4>1, <4>2
    <3> QED
      BY <1>3, <3>1 DEF Read
  <2>3. PICK x \in {"ack", "read"} : \E y :
          cpu' = [cpu EXCEPT !.packet = y, !.pc = x] /\ cpu.pc = "read"
    BY <2>2
  <2>4. PICK y : cpu' = [cpu EXCEPT !.packet = y, !.pc = x] /\ cpu.pc = "read"
    BY <2>3
  <2> QED
    BY <1>0, <2>1, <2>4 DEF Quiet, CpuShape
<1>4. CASE Acknowledge
  <2>1. reg'.cpu_tx_size = (IF cpu_tx_done THEN 0 ELSE reg.cpu_tx_size) /\ txmem' = txmem
        /\ reg'.cpu_tx_ready = (~cpu_tx_done /\ reg.cpu_tx_ready)
    BY <1>4 DEF Acknowledge, RegEdge
  <2> QED
    BY <1>0, <1>4, <2>1 DEF Quiet, CpuShape, Acknowledge
<1> QED
  BY <1>1, <1>2, <1>3, <1>4 DEF Access

LEMMA CpuMoves ==
  ASSUME Bits, Handshake, CpuHalf, MacHalf, NEW ack, TxCpuEdge(ack), Idle \/ Access
  PROVE  /\ CpuHalf' /\ MacHalf' /\ reg'.cpu_tx_ready \in BOOLEAN
         /\ Handed' = IF cpu_tx_done THEN Handed + 1 ELSE Handed
<1> DEFINE d == cpu_tx_done
           b == txc.cpu_buffer_sel
           f == cpu.sent
<1>1. d \in BOOLEAN /\ (d => reg.cpu_tx_ready /\ ~txc.mac_pending)
  BY DEF cpu_tx_done, Bits
<1>2. /\ txc'.cpu_buffer_sel = (IF d THEN 1 - b ELSE b)
      /\ txc'.cpu_tx_size = (IF d THEN reg.cpu_tx_size ELSE txc.cpu_tx_size)
      /\ txc'.mac_pending = Pending
  BY DEF TxCpuEdge
<1>3. Pending => d \/ txc.mac_pending
  BY DEF Pending, cpu_tx_done, Bits
<1>4. /\ f \in Nat /\ TxLen(f) \in Nat /\ TxLen(f) >= 1 /\ TxLen(f) <= 2
      /\ TxLen(f + 1) \in Nat /\ TxLen(f + 1) >= 1
      /\ b \in {0, 1} /\ Handed \in Nat
  BY TxLenIs, HandedIs DEF CpuHalf
<1> HIDE DEF d, b, f
<1>5. CASE Quiet
  <2>1. CASE d
    <3>1. /\ reg.cpu_tx_ready /\ cpu.pc \notin {"fill", "size"} /\ f > 0
          /\ reg.cpu_tx_size = TxLen(f) /\ Holds(txmem, b, f, TxLen(f))
      BY <1>1, <2>1 DEF CpuHalf, b, f, Preparing
    <3>2. /\ cpu'.pc \notin {"fill", "size"} /\ cpu'.sent = f /\ txmem' = txmem
          /\ ~reg'.cpu_tx_ready /\ reg'.cpu_tx_size = 0 /\ CpuShape(cpu')
          /\ reg'.cpu_tx_ready \in BOOLEAN
      BY <1>5, <2>1, <3>1 DEF Quiet, d, f
    <3>3. Handed = f - 1 /\ Handed' = f
      BY <3>1, <3>2 DEF Handed, Preparing, f
    <3>4. txc'.cpu_buffer_sel = 1 - b /\ txc'.cpu_buffer_sel \in {0, 1}
          /\ 1 - txc'.cpu_buffer_sel = b /\ txc'.cpu_tx_size = TxLen(f)
      BY <1>2, <1>4, <2>1, <3>1
    <3>5. CpuHalf'
      BY <1>4, <3>1, <3>2, <3>4 DEF CpuHalf, CpuShape, Preparing
    <3>6. MacHalf'
      BY <3>1, <3>2, <3>3, <3>4 DEF MacHalf
    <3> QED
      BY <1>4, <2>1, <3>2, <3>3, <3>5, <3>6 DEF d
  <2>2. CASE ~d
    <3>1. /\ txc'.cpu_buffer_sel = b /\ txc'.cpu_tx_size = txc.cpu_tx_size
          /\ txc'.mac_pending => txc.mac_pending
      BY <1>2, <1>3, <2>2
    <3>2. /\ cpu'.sent = f /\ txmem' = txmem /\ CpuShape(cpu')
          /\ reg'.cpu_tx_ready = reg.cpu_tx_ready /\ reg'.cpu_tx_size = reg.cpu_tx_size
          /\ reg'.cpu_tx_ready \in BOOLEAN
      BY <1>5, <2>2 DEF Quiet, d, f, Bits
    <3>3. /\ cpu'.pc \in {"fill", "size"} <=> cpu.pc \in {"fill", "size"}
          /\ cpu.pc \in {"fill", "size"} => cpu'.pc = cpu.pc /\ cpu'.n = cpu.n
      BY <1>5 DEF Quiet
    <3>4. Handed' = Handed /\ Preparing' = Preparing
      BY <3>2, <3>3 DEF Handed, Preparing, f
    <3>5. CpuHalf'
      BY <3>1, <3>2, <3>3, <3>4 DEF CpuHalf, CpuShape, b, f
    <3>6. MacHalf'
      BY <3>1, <3>2, <3>4 DEF MacHalf, b
    <3> QED
      BY <2>2, <3>2, <3>4, <3>5, <3>6 DEF d
  <2> QED
    BY <1>1, <2>1, <2>2
<1>6. ASSUME ~reg.cpu_tx_ready
      PROVE  /\ ~d /\ txc'.cpu_buffer_sel = b /\ txc'.cpu_tx_size = txc.cpu_tx_size
             /\ txc'.mac_pending => txc.mac_pending
  BY <1>1, <1>2, <1>3, <1>6
<1>7. CASE StartSend
  <2>1. ~reg.cpu_tx_ready
    BY <1>4, <1>7 DEF StartSend, CpuHalf, Bits, f
  <2>2. /\ cpu.pc = "send" /\ txmem' = txmem /\ cpu' = [cpu EXCEPT !.pc = "fill", !.sent = @ + 1, !.n = 0]
        /\ reg'.cpu_tx_ready = FALSE /\ reg'.cpu_tx_size = 0
    BY <1>6, <1>7, <2>1 DEF StartSend, NoOp, RegEdge, d, CpuHalf
  <2>3. CpuShape(cpu') /\ cpu'.pc = "fill" /\ cpu'.n = 0 /\ cpu'.sent = f + 1
    BY <2>2 DEF CpuHalf, CpuShape, f
  <2>4. Handed' = f /\ Handed = f
    BY <1>4, <2>1, <2>2, <2>3 DEF Handed, Preparing, f
  <2>5. CpuHalf'
    <3>1. Holds(txmem', txc'.cpu_buffer_sel, cpu'.sent, cpu'.n)
      <4>1. 0..(0 - 1) = {}
        OBVIOUS
      <4> QED
        BY <2>3, <4>1 DEF Holds
    <3>2. cpu'.n \in 0..(TxLen(cpu'.sent) - 1) /\ cpu'.sent \in Nat /\ cpu'.sent > 0
      BY <1>4, <2>3
    <3>3. txc'.cpu_buffer_sel \in {0, 1}
      BY <1>4, <1>6, <2>1
    <3> QED
      BY <2>2, <2>3, <3>1, <3>2, <3>3 DEF CpuHalf, CpuShape, Preparing
  <2>6. MacHalf'
    BY <1>6, <2>1, <2>2, <2>4 DEF MacHalf, b
  <2> QED
    BY <1>6, <2>1, <2>2, <2>4, <2>5, <2>6 DEF d
<1>8. CASE Fill
  <2> DEFINE w == Word(f, cpu.n + 1, TxLen(f), TRUE)
  <2>1. cpu.pc = "fill" /\ ~reg.cpu_tx_ready /\ f > 0
    BY <1>8 DEF Fill, CpuHalf, Preparing, Bits, f
  <2>2. /\ txmem' = [txmem EXCEPT ![b][cpu.n] = w]
        /\ cpu' = [cpu EXCEPT !.n = @ + 1, !.pc = IF cpu.n + 1 = TxLen(f) THEN "size" ELSE @]
        /\ reg'.cpu_tx_ready = FALSE /\ reg'.cpu_tx_size = 0
    BY <1>6, <1>8, <2>1 DEF Fill, NoOp, RegEdge, d, CpuHalf, b, f
  <2>3. cpu.n \in 0..(TxLen(f) - 1) /\ Holds(txmem, b, f, cpu.n)
    BY <2>1 DEF CpuHalf, b, f
  <2>4. /\ CpuShape(cpu') /\ cpu'.n = cpu.n + 1 /\ cpu'.sent = f
        /\ cpu'.pc = IF cpu.n + 1 = TxLen(f) THEN "size" ELSE "fill"
    BY <2>1, <2>2 DEF CpuHalf, CpuShape, f
  <2>5. cpu.n \in {0, 1} /\ cpu.n \in Nat
    BY <1>4, <2>3
  <2>6. /\ txmem' = [x \in {0, 1} |-> [y \in {0, 1} |-> txmem'[x][y]]]
        /\ \A x, y \in {0, 1} : txmem'[x][y] = IF x = b /\ y = cpu.n THEN w ELSE txmem[x][y]
    <3> HIDE DEF w
    <3>1. txmem = [x \in {0, 1} |-> [y \in {0, 1} |-> txmem[x][y]]]
      BY DEF CpuHalf
    <3> DEFINE row == [txmem[b] EXCEPT ![cpu.n] = w]
    <3>2. txmem' = [txmem EXCEPT ![b] = row]
      BY <2>2
    <3>3. \A x \in {0, 1} : txmem[x] = [y \in {0, 1} |-> txmem[x][y]]
      BY <3>1
    <3>4. row = [y \in {0, 1} |-> IF y = cpu.n THEN w ELSE txmem[b][y]]
      BY <1>4, <2>5, <3>3
    <3> HIDE DEF row
    <3>5. \A x \in {0, 1} : txmem'[x] = IF x = b THEN row ELSE txmem[x]
      BY <1>4, <3>1, <3>2
    <3>6. \A x, y \in {0, 1} : txmem'[x][y] = IF x = b /\ y = cpu.n THEN w ELSE txmem[x][y]
      BY <3>4, <3>5
    <3>7. \A x \in {0, 1} : txmem'[x] = [y \in {0, 1} |-> txmem'[x][y]]
      <4> SUFFICES ASSUME NEW x \in {0, 1} PROVE txmem'[x] = [y \in {0, 1} |-> txmem'[x][y]]
        OBVIOUS
      <4>1. CASE x = b
        BY <3>4, <3>5, <4>1
      <4>2. CASE x # b
        BY <3>3, <3>5, <4>2
      <4> QED
        BY <4>1, <4>2
    <3>8. txmem' = [x \in {0, 1} |-> txmem'[x]]
      BY <3>1, <3>2
    <3> QED
      BY <3>6, <3>7, <3>8
  <2>7. Holds(txmem', b, f, cpu.n + 1)
    <3> SUFFICES ASSUME NEW a \in 0..((cpu.n + 1) - 1)
                 PROVE  txmem'[b][a] = Word(f, a + 1, TxLen(f), TRUE)
      BY DEF Holds
    <3>1. a \in {0, 1} /\ (a = cpu.n \/ a \in 0..(cpu.n - 1))
      BY <2>5
    <3>2. CASE a = cpu.n
      BY <1>4, <2>6, <3>1, <3>2
    <3>3. CASE a # cpu.n
      BY <1>4, <2>3, <2>6, <3>1, <3>3 DEF Holds
    <3> QED
      BY <3>2, <3>3
  <2> HIDE DEF w
  <2>8. Handed' = Handed /\ Handed = f - 1
    BY <2>1, <2>2, <2>4 DEF Handed, Preparing, f
  <2>9. CpuHalf'
    BY <1>4, <1>6, <2>1, <2>2, <2>3, <2>4, <2>6, <2>7 DEF CpuHalf, CpuShape, Preparing
  <2>10. \A a \in {0, 1} : txmem'[1 - b][a] = txmem[1 - b][a]
    BY <1>4, <2>6
  <2>11. MacHalf'
    <3> SUFFICES ASSUME Handed > 0
                 PROVE  /\ txc'.cpu_tx_size = TxLen(Handed)
                        /\ Holds(txmem', 1 - b, Handed, TxLen(Handed))
      BY <1>6, <2>1, <2>8 DEF MacHalf
    <3>1. txc.cpu_tx_size = TxLen(Handed) /\ Holds(txmem, 1 - b, Handed, TxLen(Handed))
      BY DEF MacHalf, b
    <3>2. \A a \in 0..(TxLen(Handed) - 1) : a \in {0, 1}
      BY <1>4, TxLenIs
    <3> QED
      BY <1>6, <2>1, <2>10, <3>1, <3>2 DEF Holds
  <2> QED
    BY <1>6, <2>1, <2>2, <2>8, <2>9, <2>11 DEF d
<1>9. CASE StoreSize
  <2>1. cpu.pc = "size" /\ ~reg.cpu_tx_ready /\ f > 0
    BY <1>9 DEF StoreSize, CpuHalf, Preparing, Bits, f
  <2>2. /\ txmem' = txmem /\ cpu' = [cpu EXCEPT !.pc = "poll", !.n = 0]
        /\ reg'.cpu_tx_ready = TRUE /\ reg'.cpu_tx_size = TxLen(f)
    BY <1>9 DEF StoreSize, RegEdge, f
  <2>3. CpuShape(cpu') /\ cpu'.pc = "poll" /\ cpu'.sent = f
    BY <2>2 DEF CpuHalf, CpuShape, f
  <2>4. Handed' = Handed
    BY <2>1, <2>2, <2>3 DEF Handed, Preparing, f
  <2>5. Holds(txmem, b, f, TxLen(f))
    BY <2>1 DEF CpuHalf, b, f
  <2>6. CpuHalf'
    BY <1>4, <1>6, <2>1, <2>2, <2>3, <2>5 DEF CpuHalf, CpuShape, Preparing
  <2>7. MacHalf'
    BY <1>6, <2>1, <2>2, <2>4 DEF MacHalf, b
  <2> QED
    BY <1>6, <2>1, <2>2, <2>4, <2>6, <2>7 DEF d
<1> QED
  BY <1>5, <1>7, <1>8, <1>9, DriverStep

(***************************************************************************)
(* The two edges together.  A side that does not move in a step counts as  *)
(* still; a side that does samples the other's bit old or new.             *)
(***************************************************************************)
MacStill == UNCHANGED <<tx, wire, nwire>>
CpuStill == UNCHANGED <<txc, reg, txmem, cpu>>

\* What an edge of the MAC's clock makes of the bits it owns.
MacBits ==
  /\ tx'.pendingRR = tx.pendingR /\ tx'.mac_cpu_ack \in BOOLEAN
  /\ tx'.mac_cpu_ack => tx.pendingRR
  /\ tx.mac_cpu_ack /\ tx.pendingRR => tx'.mac_cpu_ack

LEMMA PendingIs ==
  ASSUME Bits
  PROVE  Pending \in BOOLEAN /\ cpu_tx_done \in BOOLEAN
  BY DEF Bits, Pending, cpu_tx_done

\* The line still fits after the CPU's side has moved too.
LEMMA LineStays ==
  ASSUME TxInv, NEW ack, TxCpuEdge(ack), tx' = tx \/ MacBits,
         LineAt(tx', wire', nwire', Handed, txc.mac_pending),
         Handed' = IF cpu_tx_done THEN Handed + 1 ELSE Handed
  PROVE  LineAt(tx', wire', nwire', Handed', txc'.mac_pending)
<1> USE DEF TxInv
<1>1. txc'.mac_pending = Pending /\ Handed \in Nat
  BY HandedIs DEF TxCpuEdge
<1>2. CASE cpu_tx_done
  <2>1. ~txc.mac_pending /\ ~txc.ack_low_wait /\ reg.cpu_tx_ready
    BY <1>2 DEF cpu_tx_done
  <2>2. ~tx.pendingR /\ ~tx.pendingRR /\ ~tx.mac_cpu_ack /\ ~txc.ackRR
    BY <2>1 DEF Handshake, OneRound, Bits
  <2>3. ~tx'.pendingRR /\ ~tx'.mac_cpu_ack
    BY <2>2 DEF MacBits
  <2>4. Pending
    BY <2>1, <2>2 DEF Pending, Bits
  <2>5. tx'.tx_state \in {"IDLE", "APP"} /\ nwire' = Handed
        /\ (nwire' > 0 => wire' = Words(nwire', TxLen(nwire')))
    BY <2>1, <2>3 DEF LineAt
  <2>6. nwire' = (Handed + 1) - 1
    BY <1>1, <2>5
  <2> QED
    BY <1>1, <1>2, <2>3, <2>4, <2>5, <2>6 DEF LineAt
<1>3. CASE ~cpu_tx_done
  <2>1. Pending => txc.mac_pending
    BY <1>3 DEF Pending, cpu_tx_done, Bits
  <2>2. CASE Pending \/ ~txc.mac_pending
    <3>1. Pending <=> txc.mac_pending
      BY <2>1, <2>2 DEF Bits
    <3>2. Pending = txc.mac_pending
      BY <3>1, PendingIs DEF Bits
    <3> QED
      BY <1>1, <1>3, <3>2
  <2>3. CASE txc.mac_pending /\ ~Pending
    <3>1. txc.ackRR /\ ~txc.ack_low_wait
      BY <2>3 DEF Pending, Bits
    <3>2. tx.mac_cpu_ack /\ tx.pendingRR
      BY <2>3, <3>1 DEF Handshake, OneRound, Bits
    <3>3. tx'.mac_cpu_ack
      BY <3>2 DEF MacBits
    <3> QED
      BY <1>1, <1>3, <2>3, <3>3 DEF LineAt
  <2> QED
    BY <2>2, <2>3
<1> QED
  BY <1>2, <1>3

\* The change under way has gone one place on, or stays, or a new one begins.
LEMMA RoundGoesOn ==
  ASSUME TxInv, MacBits, TxCpuEdge(txc'.ackR),
         tx'.pendingR \in {txc.mac_pending, Pending},
         txc'.ackR \in {tx.mac_cpu_ack, tx'.mac_cpu_ack},
         reg'.cpu_tx_ready \in BOOLEAN
  PROVE  Bits' /\ Handshake'
<1> USE DEF TxInv
<1>1. /\ txc'.mac_pending = Pending /\ txc'.ackRR = txc.ackR /\ txc'.ack_low_wait = txc.ackRR
      /\ Pending \in BOOLEAN
  BY PendingIs DEF TxCpuEdge
<1>2. Bits'
  BY <1>1 DEF Bits, MacBits
<1>3. /\ txc.ack_low_wait => (Pending <=> txc.mac_pending)
      /\ txc.ackRR /\ ~txc.ack_low_wait => ~Pending
      /\ ~txc.ackRR /\ ~txc.ack_low_wait => (txc.mac_pending => Pending)
  BY DEF Pending, Bits
<1>4. Handshake'
  BY <1>1, <1>2, <1>3 DEF Handshake, OneRound, Bits, MacBits
<1> QED
  BY <1>2, <1>4

LEMMA MacAlone ==
  ASSUME TxInv, MacEdge
  PROVE  TxInv'
<1> USE DEF TxInv
<1>1. TxMacEdge(txc.mac_pending) /\ CpuStill
  BY DEF MacEdge, MacSide, CpuStill
<1>2. txc.mac_pending \in BOOLEAN
  BY DEF Bits
<1>3. /\ tx'.pendingR = txc.mac_pending /\ tx'.pendingRR = tx.pendingR
      /\ tx'.mac_cpu_ack \in BOOLEAN
      /\ tx'.mac_cpu_ack => tx.pendingRR
      /\ tx.mac_cpu_ack /\ tx.pendingRR => tx'.mac_cpu_ack
      /\ LineAt(tx', wire', nwire', Handed, txc.mac_pending)
  BY <1>1, <1>2, MacMoves
<1>4. Bits' /\ CpuHalf' /\ MacHalf' /\ Handed' = Handed
  BY <1>1, <1>3 DEF CpuStill, Bits, CpuHalf, MacHalf, Handed, Preparing
<1>5. Handshake'
  BY <1>1, <1>3 DEF CpuStill, Handshake, OneRound, Bits
<1>6. LineAt(tx', wire', nwire', Handed', txc'.mac_pending)
  BY <1>1, <1>3, <1>4 DEF CpuStill
<1> QED
  BY <1>4, <1>5, <1>6

LEMMA CpuAlone ==
  ASSUME TxInv, CpuEdge(Idle) \/ CpuEdge(Access)
  PROVE  TxInv'
<1> USE DEF TxInv
<1>1. TxCpuEdge(tx.mac_cpu_ack) /\ (Idle \/ Access) /\ MacStill
  BY DEF CpuEdge, CpuSide, MacStill
<1>2. /\ CpuHalf' /\ MacHalf' /\ reg'.cpu_tx_ready \in BOOLEAN
      /\ Handed' = IF cpu_tx_done THEN Handed + 1 ELSE Handed
  BY <1>1, CpuMoves
<1>3. LineAt(tx', wire', nwire', Handed, txc.mac_pending) /\ tx' = tx
  BY <1>1 DEF MacStill
<1>4. LineAt(tx', wire', nwire', Handed', txc'.mac_pending)
  BY <1>1, <1>2, <1>3, LineStays
<1>5. /\ txc'.mac_pending = Pending /\ txc'.ackR = tx.mac_cpu_ack /\ txc'.ackRR = txc.ackR
      /\ txc'.ack_low_wait = txc.ackRR /\ Pending \in BOOLEAN
  BY <1>1, PendingIs DEF TxCpuEdge
<1>6. Bits'
  BY <1>2, <1>3, <1>5 DEF Bits
<1>7. /\ txc.ack_low_wait => (Pending <=> txc.mac_pending)
      /\ txc.ackRR /\ ~txc.ack_low_wait => ~Pending
      /\ ~txc.ackRR /\ ~txc.ack_low_wait => (txc.mac_pending => Pending)
  BY DEF Pending, Bits
<1>8. Handshake'
  BY <1>3, <1>5, <1>6, <1>7 DEF Handshake, OneRound, Bits
<1> QED
  BY <1>2, <1>4, <1>6, <1>8

LEMMA BothMove ==
  ASSUME TxInv, BothEdges(Idle) \/ BothEdges(Access)
  PROVE  TxInv'
<1> USE DEF TxInv
<1>1. PICK q \in {txc.mac_pending, Pending} : TxMacEdge(q)
  BY DEF BothEdges, MacSide
<1>2. PICK ack \in {tx.mac_cpu_ack, tx'.mac_cpu_ack} : TxCpuEdge(ack)
  BY DEF BothEdges, CpuSide
<1>3. q \in BOOLEAN
  BY <1>1, PendingIs DEF Bits
<1>4. /\ tx'.pendingR = q /\ MacBits
      /\ LineAt(tx', wire', nwire', Handed, txc.mac_pending)
  BY <1>1, <1>3, MacMoves DEF MacBits
<1>5. /\ CpuHalf' /\ MacHalf' /\ reg'.cpu_tx_ready \in BOOLEAN
      /\ Handed' = IF cpu_tx_done THEN Handed + 1 ELSE Handed
  BY <1>2, CpuMoves DEF BothEdges
<1>6. LineAt(tx', wire', nwire', Handed', txc'.mac_pending)
  BY <1>2, <1>4, <1>5, LineStays
<1>7. txc'.ackR = ack
  BY <1>2 DEF TxCpuEdge
<1>8. Bits' /\ Handshake'
  BY <1>1, <1>2, <1>4, <1>5, <1>7, RoundGoesOn
<1> QED
  BY <1>5, <1>6, <1>8

LEMMA TxInvInit == Init => TxInv
<1> SUFFICES ASSUME Init PROVE TxInv
  OBVIOUS
<1>1. Bits /\ Handshake
  BY DEF Init, Bits, Handshake, OneRound
<1>2. ~Preparing /\ cpu.sent = 0 /\ Handed = 0
  BY DEF Init, Preparing, Handed
<1>3. CpuHalf
  <2>1. 0..1 = {0, 1}
    OBVIOUS
  <2>2. txmem = [b \in {0, 1} |-> [a \in {0, 1} |-> txmem[b][a]]]
    BY <2>1 DEF Init
  <2> QED
    BY <1>2, <2>2 DEF Init, CpuHalf
<1>4. MacHalf
  BY <1>2 DEF Init, MacHalf
<1>5. LineAt(tx, wire, nwire, Handed, txc.mac_pending)
  BY <1>2 DEF Init, LineAt
<1> QED
  BY <1>1, <1>3, <1>4, <1>5 DEF TxInv

LEMMA TxInvStep == TxInv /\ [Next]_vars => TxInv'
<1> SUFFICES ASSUME TxInv, [Next]_vars PROVE TxInv'
  OBVIOUS
<1>1. CASE UNCHANGED vars
  BY <1>1 DEF vars, TxInv, Bits, Handshake, CpuHalf, MacHalf, Handed, Preparing
<1> QED
  BY <1>1, MacAlone, CpuAlone, BothMove DEF Next

LEMMA TxInvWhole == TxInv => TxWhole
<1> SUFFICES ASSUME TxInv PROVE TxWhole
  OBVIOUS
<1> USE DEF TxInv
<1>1. Handed \in Nat /\ TxLen(Handed) \in Nat
  BY HandedIs, TxLenIs
<1>2. \A f : Whole(f, TxLen(f)) = Words(f, TxLen(f))
  BY DEF Whole, Words
<1>3. CASE tx.tx_state \in {"CPU_WAIT", "SEND_CPU"}
  <2> DEFINE h == Handed
             n == TxLen(h)
             k == n - tx.tx_size
             e(i) == Word(h, i, n, TRUE)
             S == {e(i) : i \in 1..n}
             s == Words(h, n)
  <2>1. txc.mac_pending
    BY <1>3 DEF LineAt, Bits, Handshake, OneRound
  <2>2. h > 0
    BY <2>1 DEF MacHalf
  <2>3. nwire + 1 = h
    BY <1>1, <1>3, <2>1 DEF LineAt
  <2>4. tx.tx_size \in 1..n /\ wire = Words(h, k)
    BY <1>3 DEF LineAt
  <2>5. k \in 0..n /\ k \in Nat
    BY <1>1, <2>4
  <2>6. s = [i \in 1..n |-> e(i)] /\ wire = [i \in 1..k |-> e(i)]
    BY <2>4 DEF Words
  <2>7. \A i \in 1..n : e(i) \in S
    OBVIOUS
  <2>8. n \in Nat
    BY <1>1
  <2>9. Whole(nwire + 1, TxLen(nwire + 1)) = s
    BY <1>2, <2>3
  <2> HIDE DEF n, k, e, S, s, h
  <2>10. s \in Seq(S) /\ Len(s) = n /\ wire \in Seq(S) /\ Len(wire) = k
    BY <2>5, <2>6, <2>7, <2>8
  <2>11. wire = SubSeq(s, 1, k)
    BY <2>5, <2>6, <2>8, <2>10
  <2> QED
    BY <1>3, <2>9, <2>10, <2>11 DEF TxWhole
<1>4. CASE tx.tx_state \notin {"CPU_WAIT", "SEND_CPU"}
  <2>1. nwire > 0 => wire = Words(nwire, TxLen(nwire))
    BY <1>4 DEF LineAt
  <2> QED
    BY <1>2, <1>4, <2>1 DEF TxWhole
<1> QED
  BY <1>3, <1>4

\* FramesLeaveWhole: what tge_tx.v puts on the line is the frames the driver wrote,
\* in order and whole, for every number of frames, whichever clock ticks when, and
\* whichever value is sampled at edges of both: the halves of the transmit buffer are
\* exchanged only between two frames, and once per frame handed over.
THEOREM FramesLeaveWhole == Spec => []TxWhole
<1>1. Spec => []TxInv
  BY TxInvInit, TxInvStep, PTL DEF Spec
<1> QED
  BY <1>1, TxInvWhole, PTL
=============================================================================
