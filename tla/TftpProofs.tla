----------------------------- MODULE TftpProofs -----------------------------
(***************************************************************************)
(* Proofs about TftpSystem, for every set of clients, every file length,   *)
(* block-number width, timeout, retry count and channel capacity: types    *)
(* and sessions; then, in every instance in which the block number does    *)
(* not wrap, writes are stored exactly once and in order, acknowledged     *)
(* blocks are stored, and the system implements FileTransfer; and a reader *)
(* gets the blocks of its file in order, without gap or repeat, unless the *)
(* instance has both repeated requests and failing allocations.            *)
(***************************************************************************)
EXTENDS TftpSystem, TLAPS

(***************************************************************************)
(* Channels.                                                               *)
(***************************************************************************)

\* Put (a packet entering a channel of bounded capacity) keeps the type.
LEMMA PutType ==
  ASSUME NEW S, NEW q \in Seq(S), NEW m \in S
  PROVE  Put(q, m) \in Seq(S)
BY DEF Put

\* Put keeps what was there and may add the packet at the end.
LEMMA PutElems ==
  ASSUME NEW S, NEW q \in Seq(S), NEW m \in S
  PROVE  /\ Len(Put(q, m)) \in {Len(q), Len(q) + 1}
         /\ \A p \in 1..Len(Put(q, m)) :
              Put(q, m)[p] = IF p <= Len(q) THEN q[p] ELSE m
BY DEF Put

\* Taking the head off a channel keeps the type and shifts the rest.
LEMMA TailElems ==
  ASSUME NEW S, NEW q \in Seq(S), q # <<>>
  PROVE  /\ Head(q) \in S /\ Head(q) = q[1] /\ Len(q) \in Nat \ {0}
         /\ Tail(q) \in Seq(S) /\ Len(Tail(q)) = Len(q) - 1
         /\ \A p \in 1..Len(Tail(q)) : Tail(q)[p] = q[p + 1]
OBVIOUS

\* The packets the server and the clients build are packets.
LEMMA PacketTypes ==
  /\ Error \in Packet
  /\ \A o \in {"RRQ", "WRQ"} : Request(o) \in Packet
  /\ \A b \in BlkNum : Ack(b) \in Packet
  /\ \A d \in DataPkt : Data(d) \in Packet
  /\ \A i \in Block : BlockPkt(i) \in DataPkt
BY ServerAssumption DEF Error, Packet, Request, Ack, Data, BlockPkt, DataPkt, BlkNum, Block

\* What the fields of a packet can be.
LEMMA PacketFields ==
  ASSUME NEW m \in Packet
  PROVE  /\ m.blk \in BlkNum /\ m.full \in BOOLEAN
         /\ m.op = "DATA" => m.data \in Block
         /\ m.op # "DATA" => m.data = 0
         /\ m.op \in {"RRQ", "WRQ", "DATA", "ACK", "ERROR"}
BY DEF Packet

(***************************************************************************)
(* Type correctness.                                                       *)
(***************************************************************************)

\* A packet taken from a channel and one put into a channel keep the types.
LEMMA ConsumeType ==
  ASSUME TypeOK, NEW c \in Clients, toSrv[c] # <<>>, Consume(c)
  PROVE  toSrv' \in [Clients -> Seq(Packet)] /\ Head1(c) \in Packet
BY TailElems DEF TypeOK, ServerTypeOK, Consume, Head1

LEMMA SendType ==
  ASSUME TypeOK, NEW c \in Clients, NEW m \in Packet, send(c, m)
  PROVE  toCli' \in [Clients -> Seq(Packet)]
BY PutType DEF TypeOK, ServerTypeOK, send

LEMMA ClientSendType ==
  ASSUME TypeOK, NEW c \in Clients, NEW m \in Packet, ClientSend(c, m)
  PROVE  toSrv' \in [Clients -> Seq(Packet)]
BY PutType DEF TypeOK, ServerTypeOK, ClientSend

LEMMA ClientTakeType ==
  ASSUME TypeOK, NEW c \in Clients, ClientTake(c)
  PROVE  toCli' \in [Clients -> Seq(Packet)] /\ Reply(c) \in Packet
BY TailElems DEF TypeOK, ServerTypeOK, ClientTake, Reply

LEMMA AcceptedType ==
  ASSUME TypeOK, NEW c \in Clients, NEW ops, Accepted(c, ops)
  PROVE  /\ toSrv' \in [Clients -> Seq(Packet)] /\ Head1(c) \in Packet
         /\ idle' \in 0..(TimeoutTicks + 1) /\ retries' \in 0..MaxRetries
         /\ Head1(c).op \in ops /\ (handle /\ peer # NoPeer => peer = c)
BY ConsumeType, ServerAssumption DEF Accepted, Foreign

\* The timer list never holds more entries than the pool.
LEMMA TimeoutType ==
  \A a \in 0..TmrSlots :
    /\ sys_timeout(a) \in 0..TmrSlots /\ sys_timeout(a) > 0
    /\ sys_untimeout(a) \in 0..TmrSlots
    /\ a > 0 => a - 1 \in 0..TmrSlots
BY ServerAssumption DEF sys_timeout, sys_untimeout

LEMMA CloseHandleType ==
  ASSUME NEW a \in 0..TmrSlots, close_handle(a)
  PROVE  /\ handle' = FALSE /\ peer' = NoPeer /\ last_data' = NoData
         /\ armed' \in 0..TmrSlots /\ ctxfn' = "error"
BY TimeoutType DEF close_handle

\* Whatever becomes of send_data, the session state stays well typed.
LEMMA SendDataType ==
  ASSUME TypeOK, NEW c \in Clients, NEW p \in 0..FileLen, NEW b \in BlkNum,
         NEW fn \in {"error", "read", "write"}, NEW a \in 0..TmrSlots,
         send_data(c, p, b, fn, a)
  PROVE  /\ handle' \in BOOLEAN /\ peer' \in Clients \cup {NoPeer}
         /\ last_data' \in DataPkt \cup {NoData} /\ armed' \in 0..TmrSlots
         /\ ctxfn' \in {"error", "read", "write"} /\ rdpos' \in 0..FileLen
         /\ toCli' \in [Clients -> Seq(Packet)]
<1>1. CASE SendDataNoMem(c, fn, a) /\ rdpos' = p
  BY <1>1 DEF SendDataNoMem, TypeOK, ServerTypeOK
<1>2. CASE SendDataReadError(c, a) /\ rdpos' = p
  <2>1. toCli' \in [Clients -> Seq(Packet)]
    BY <1>2, SendType, PacketTypes DEF SendDataReadError, send_error
  <2> QED
    BY <1>2, <2>1, CloseHandleType DEF SendDataReadError
<1>3. CASE SendDataOk(c, p, b, fn, a) /\ rdpos' = p + 1
  <2> DEFINE d == [blk |-> b, data |-> p + 1, full |-> p + 1 < FileLen]
  <2>1. p + 1 \in 0..FileLen /\ d \in DataPkt
    BY <1>3, ServerAssumption DEF SendDataOk, DataPkt, Block
  <2>2. toCli' \in [Clients -> Seq(Packet)]
    BY <1>3, <2>1, SendType, PacketTypes DEF SendDataOk
  <2> QED
    BY <1>3, <2>1, <2>2 DEF SendDataOk
<1> QED
  BY <1>1, <1>2, <1>3 DEF send_data

\* Every packet the server handles keeps the types.
LEMMA RecvType ==
  ASSUME TypeOK, NEW c \in Clients, RecvStep(c)
  PROVE  TypeOK'
<1> USE DEF TypeOK, ServerTypeOK, clientVars, serverVars
<1>1. CASE RecvForeign(c)
  BY <1>1, ConsumeType, SendType, PacketTypes DEF RecvStep, RecvForeign, send_error
<1>2. CASE RecvRequestBusy(c)
  BY <1>2, AcceptedType, SendType, PacketTypes DEF RecvStep, RecvRequestBusy, send_error
<1>3. CASE RecvRequestRefused(c)
  <2>1. blknum' \in BlkNum /\ ctxfn' \in {"error", "read", "write"}
    BY <1>3, ServerAssumption DEF RecvRequestRefused, BlkNum
  <2>2. armed' \in 0..TmrSlots
    BY <1>3, TimeoutType, ServerAssumption DEF RecvRequestRefused
  <2> QED
    BY <1>3, <2>1, <2>2, AcceptedType, SendType, PacketTypes
    DEF RecvStep, RecvRequestRefused, send_error
<1>4. CASE RecvWrq(c)
  <2>1. 0 \in BlkNum /\ 1 \in BlkNum
    BY ServerAssumption DEF BlkNum
  <2>2. armed' \in 0..TmrSlots
    BY <1>4, TimeoutType, ServerAssumption DEF RecvWrq
  <2>3. stored' \in [Clients -> Seq(Clients \X Block)]
    BY <1>4 DEF RecvWrq
  <2> QED
    BY <1>4, <2>1, <2>2, <2>3, AcceptedType, SendType, PacketTypes
    DEF RecvStep, RecvWrq, send_ack
<1>5. CASE RecvRrq(c)
  <2>1. 0 \in 0..FileLen /\ 1 \in BlkNum
    BY ServerAssumption DEF BlkNum
  <2>2. sys_timeout(armed) \in 0..TmrSlots
    BY TimeoutType, ServerAssumption
  <2> QED
    BY <1>5, <2>1, <2>2, AcceptedType, SendDataType DEF RecvStep, RecvRrq
<1>6. CASE RecvDataDuplicate(c)
  <2>1. Head1(c).blk \in BlkNum /\ Head1(c).full \in BOOLEAN
    BY <1>6, AcceptedType, PacketFields DEF RecvDataDuplicate
  <2>2. /\ handle' \in BOOLEAN /\ peer' \in Clients \cup {NoPeer}
        /\ last_data' \in DataPkt \cup {NoData} /\ armed' \in 0..TmrSlots
        /\ ctxfn' \in {"error", "read", "write"}
    BY <1>6, <2>1, CloseHandleType DEF RecvDataDuplicate, keep
  <2> QED
    BY <1>6, <2>1, <2>2, AcceptedType, SendType, PacketTypes
    DEF RecvStep, RecvDataDuplicate, send_ack
<1>7. CASE RecvDataWrite(c)
  <2>1. /\ Head1(c).blk \in BlkNum /\ Head1(c).full \in BOOLEAN
        /\ Head1(c).data \in Block
    <3>1. Accepted(c, {"DATA"})
      BY <1>7 DEF RecvDataWrite
    <3>2. Head1(c) \in Packet /\ Head1(c).op = "DATA"
      BY <3>1, ConsumeType DEF Accepted
    <3> QED
      BY <3>2, PacketFields
  <2>2. /\ handle' \in BOOLEAN /\ peer' \in Clients \cup {NoPeer}
        /\ last_data' \in DataPkt \cup {NoData} /\ armed' \in 0..TmrSlots
        /\ ctxfn' \in {"error", "read", "write"}
    BY <1>7, <2>1, CloseHandleType DEF RecvDataWrite, keep
  <2>3. blknum' \in BlkNum
    BY <1>7, <2>1, ServerAssumption DEF RecvDataWrite, BlkNum
  <2>4. stored' \in [Clients -> Seq(Clients \X Block)]
    <3>1. <<c, Head1(c).data>> \in Clients \X Block
      BY <2>1
    <3>2. CASE peer \in Clients
      <4>1. Append(stored[peer], <<c, Head1(c).data>>) \in Seq(Clients \X Block)
        BY <3>1, <3>2
      <4> QED
        BY <1>7, <4>1 DEF RecvDataWrite
    <3>3. CASE peer \notin Clients
      BY <1>7, <3>3 DEF RecvDataWrite
    <3> QED
      BY <3>2, <3>3
  <2> QED
    BY <1>7, <2>1, <2>2, <2>3, <2>4, AcceptedType, SendType, PacketTypes
    DEF RecvStep, RecvDataWrite, send_ack
<1>8. CASE RecvDataWriteError(c)
  <2>1. (IF Head1(c).full THEN armed ELSE sys_untimeout(armed)) \in 0..TmrSlots
    BY TimeoutType
  <2>2. /\ handle' = FALSE /\ peer' = NoPeer /\ last_data' = NoData
        /\ armed' \in 0..TmrSlots /\ ctxfn' = "error"
    BY <1>8, <2>1, CloseHandleType DEF RecvDataWriteError
  <2> QED
    BY <1>8, <2>2, AcceptedType, SendType, PacketTypes
    DEF RecvStep, RecvDataWriteError, send_error
<1>9. CASE RecvRejected(c)
  BY <1>9, AcceptedType, SendType, PacketTypes DEF RecvStep, RecvRejected, send_error
<1>10. CASE RecvAck(c)
  <2>1. blknum' \in BlkNum
    BY <1>10, ServerAssumption DEF RecvAck, BlkNum
  <2>2. send_data(c, rdpos, blknum', ctxfn, armed)
    BY <1>10 DEF RecvAck
  <2>3. /\ handle' \in BOOLEAN /\ peer' \in Clients \cup {NoPeer}
        /\ last_data' \in DataPkt \cup {NoData} /\ armed' \in 0..TmrSlots
        /\ ctxfn' \in {"error", "read", "write"} /\ rdpos' \in 0..FileLen
        /\ toCli' \in [Clients -> Seq(Packet)]
    BY <2>1, <2>2, SendDataType
  <2> QED
    BY <1>10, <2>1, <2>3, AcceptedType DEF RecvStep, RecvAck, AcceptedAck
<1>11. CASE RecvLastAck(c)
  BY <1>11, AcceptedType, CloseHandleType DEF RecvStep, RecvLastAck, AcceptedAck
<1> QED
  BY <1>1, <1>2, <1>3, <1>4, <1>5, <1>6, <1>7, <1>8, <1>9, <1>10, <1>11
  DEF RecvStep, recv

\* The tick counter is cut off one past the timeout.
LEMMA ElapsedType ==
  ASSUME idle \in 0..(TimeoutTicks + 1)
  PROVE  Elapsed \in 0..(TimeoutTicks + 1)
BY ServerAssumption DEF Elapsed

LEMMA TmrType ==
  ASSUME TypeOK, TmrStep
  PROVE  TypeOK'
<1> USE DEF TypeOK, ServerTypeOK, clientVars
<1>1. armed > 0 => armed - 1 \in 0..TmrSlots /\ sys_timeout(armed - 1) \in 0..TmrSlots
  BY TimeoutType
<1>2. CASE TmrNoSession
  BY <1>1, <1>2, ElapsedType DEF TmrStep, TmrNoSession
<1>3. CASE TmrWait
  BY <1>1, <1>3, ElapsedType DEF TmrStep, TmrWait, TmrFires
<1>4. CASE TmrResend
  <2>1. last_data \in DataPkt /\ retries' \in 0..MaxRetries
    BY <1>4, ServerAssumption DEF TmrResend
  <2>2. ASSUME peer \in Clients
        PROVE  toCli' \in [Clients -> Seq(Packet)]
    BY <1>4, <2>1, <2>2, SendType, PacketTypes DEF TmrResend, resend_data
  <2>3. ASSUME peer \notin Clients
        PROVE  toCli' = toCli
    BY <1>4, <2>3 DEF TmrResend, resend_data, send
  <2> QED
    BY <1>1, <1>4, <2>1, <2>2, <2>3, ElapsedType DEF TmrStep, TmrResend, TmrFires, keep
<1>5. CASE TmrClose
  BY <1>1, <1>5, ElapsedType, CloseHandleType DEF TmrStep, TmrClose, TmrFires
<1> QED
  BY <1>2, <1>3, <1>4, <1>5 DEF TmrStep, tftp_tmr

LEMMA ClientType ==
  ASSUME TypeOK, ClientCoherent, NEW c \in Clients, ClientStep(c) \/ Lose(c)
  PROVE  TypeOK'
<1> USE DEF TypeOK, ServerTypeOK, clientVars, serverVars, CState
<1>1. CASE Start(c)
  BY <1>1, ClientSendType, PacketTypes DEF Start
<1>2. CASE GetAck0(c)
  <2>1. 1 \in Block
    BY ServerAssumption DEF Block
  <2> QED
    BY <1>2, <2>1, ClientTakeType, ClientSendType, PacketTypes DEF GetAck0
<1>3. CASE GetAck(c)
  <2>1. count[c] < FileLen
    BY <1>3 DEF GetAck, ClientCoherent
  <2>2. count' \in [Clients -> 0..FileLen]
    BY <1>3, <2>1, ServerAssumption DEF GetAck
  <2>3. CASE count[c] + 1 = FileLen
    BY <1>3, <2>2, <2>3, ClientTakeType DEF GetAck
  <2>4. CASE count[c] + 1 # FileLen
    <3> HIDE DEF TypeOK, ServerTypeOK
    <3>0. count[c] \in Nat /\ FileLen \in Nat
      BY ServerAssumption DEF TypeOK
    <3>1. count[c] + 2 \in Block
      BY <2>1, <2>4, <3>0 DEF Block
    <3>2. Data(BlockPkt(count[c] + 2)) \in Packet
      BY <3>1, PacketTypes
    <3> QED
      BY <1>3, <2>2, <2>4, <3>2, ClientTakeType, ClientSendType DEF GetAck, TypeOK, ServerTypeOK
  <2> QED
    BY <2>3, <2>4
<1>4. CASE GetData(c)
  <2>1. /\ Reply(c).data \in Block /\ Reply(c).blk \in BlkNum
        /\ Reply(c).full \in BOOLEAN
    BY <1>4, ClientTakeType, PacketFields DEF GetData
  <2>2. count' \in [Clients -> 0..FileLen]
    BY <1>4, ServerAssumption, SMTT(30) DEF GetData
  <2>3. got' \in [Clients -> Seq(Block)]
    BY <1>4, <2>1 DEF GetData
  <2> QED
    BY <1>4, <2>1, <2>2, <2>3, ClientTakeType, ClientSendType, PacketTypes DEF GetData
<1>5. CASE GetDataAgain(c)
  <2>1. Reply(c).blk \in BlkNum
    BY <1>5, ClientTakeType, PacketFields DEF GetDataAgain
  <2> QED
    BY <1>5, <2>1, ClientTakeType, ClientSendType, PacketTypes DEF GetDataAgain
<1>6. CASE GetError(c)
  BY <1>6, ClientTakeType DEF GetError
<1>7. CASE Resend(c)
  <2>1. cstate[c] = "writing" => Data(BlockPkt(count[c] + 1)) \in Packet
    <3>1. cstate[c] = "writing" => count[c] + 1 \in Block
      BY ServerAssumption DEF ClientCoherent, Block
    <3> QED
      BY <3>1, PacketTypes
  <2>2. Ack(count[c] % BlkMod) \in Packet
    <3>1. count[c] % BlkMod \in BlkNum
      BY ServerAssumption DEF BlkNum
    <3> QED
      BY <3>1, PacketTypes
  <2>3. toSrv' \in [Clients -> Seq(Packet)]
    BY <1>7, <2>1, <2>2, ClientSendType, PacketTypes DEF Resend
  <2> QED
    BY <1>7, <2>3 DEF Resend
<1>8. CASE Quit(c)
  BY <1>8, ClientSendType, PacketTypes DEF Quit
<1>9. CASE Lose(c)
  BY <1>9, ClientTakeType, ConsumeType DEF Lose
<1> QED
  BY <1>1, <1>2, <1>3, <1>4, <1>5, <1>6, <1>7, <1>8, <1>9 DEF ClientStep

\* The clients' counters stay coherent.
LEMMA ClientCoherentStep ==
  ASSUME TypeOK, ClientCoherent, [Next]_vars
  PROVE  ClientCoherent'
<1> USE DEF ClientCoherent, TypeOK, clientVars
<1>1. CASE UNCHANGED clientVars
  BY <1>1
<1>2. ASSUME NEW c \in Clients, ClientStep(c)
      PROVE  ClientCoherent'
  <2>1. CASE Start(c)
    BY <2>1 DEF Start
  <2>2. CASE GetAck0(c)
    BY <2>2, ServerAssumption DEF GetAck0
  <2>3. CASE GetAck(c)
    BY <2>3, ServerAssumption DEF GetAck
  <2>4. CASE GetData(c)
    BY <2>4 DEF GetData
  <2>5. CASE GetDataAgain(c)
    BY <2>5 DEF GetDataAgain
  <2>6. CASE GetError(c)
    BY <2>6 DEF GetError
  <2>7. CASE Resend(c)
    BY <2>7 DEF Resend
  <2>8. CASE Quit(c)
    BY <2>8 DEF Quit
  <2> QED
    BY <1>2, <2>1, <2>2, <2>3, <2>4, <2>5, <2>6, <2>7, <2>8 DEF ClientStep
<1>3. CASE \E c \in Clients : RecvStep(c) \/ Lose(c)
  BY <1>1, <1>3 DEF RecvStep, Lose
<1>4. CASE TmrStep \/ InitStep \/ UNCHANGED vars
  BY <1>1, <1>4 DEF TmrStep, InitStep, vars
<1> QED
  BY <1>2, <1>3, <1>4 DEF Next

LEMMA TypeStep ==
  ASSUME TypeOK, ClientCoherent, [Next]_vars
  PROVE  TypeOK'
<1>1. ASSUME NEW c \in Clients, ClientStep(c) \/ RecvStep(c) \/ Lose(c)
      PROVE  TypeOK'
  BY <1>1, ClientType, RecvType
<1>2. CASE InitStep
  BY <1>2 DEF InitStep, casper_tftp_init, TypeOK, ServerTypeOK, clientVars
<1>3. CASE UNCHANGED vars
  BY <1>3 DEF vars, serverVars, clientVars, TypeOK, ServerTypeOK
<1> QED
  BY <1>1, <1>2, <1>3, TmrType DEF Next

\* The types of the server's, the network's and the clients' state are an
\* invariant: block numbers stay in their u16_t and the armed timers within
\* the sys_timeout pool, for every instance.
THEOREM TypeCorrect == Spec => [](TypeOK /\ ClientCoherent)
<1>1. Init => TypeOK /\ ClientCoherent
  <2> SUFFICES ASSUME Init PROVE TypeOK /\ ClientCoherent
    OBVIOUS
  <2>1. /\ stored \in [Clients -> Seq(Clients \X Block)]
        /\ toSrv \in [Clients -> Seq(Packet)] /\ toCli \in [Clients -> Seq(Packet)]
        /\ got \in [Clients -> Seq(Block)]
    BY DEF Init, ServerInit
  <2>2. 0 \in BlkNum /\ 0 \in 0..FileLen /\ 0 \in 0..(TimeoutTicks + 1)
        /\ 0 \in 0..MaxRetries /\ 0 \in 0..TmrSlots
    BY ServerAssumption DEF BlkNum
  <2>3. ServerTypeOK
    BY <2>1, <2>2 DEF Init, ServerInit, ServerTypeOK
  <2>4. TypeOK
    BY <2>1, <2>2, <2>3 DEF Init, TypeOK, CState
  <2> QED
    BY <2>4 DEF Init, ClientCoherent
<1>2. TypeOK /\ ClientCoherent /\ [Next]_vars => (TypeOK /\ ClientCoherent)'
  BY TypeStep, ClientCoherentStep
<1> QED
  BY <1>1, <1>2, PTL DEF Spec

(***************************************************************************)
(* The session's state is coherent.                                        *)
(***************************************************************************)

\* Opening, continuing or closing a session in send_data keeps it coherent.
LEMMA SendDataCoherent ==
  ASSUME NEW c \in Clients, NEW p, NEW b, NEW fn, NEW a \in 0..TmrSlots, a > 0,
         send_data(c, p, b, fn, a)
  PROVE  SessionCoherent'
BY ServerAssumption
DEF send_data, SendDataNoMem, SendDataReadError, SendDataOk, close_handle, SessionCoherent

LEMMA CloseCoherent ==
  ASSUME NEW a, close_handle(a)
  PROVE  SessionCoherent'
BY DEF close_handle, SessionCoherent

LEMMA CoherentStep ==
  ASSUME TypeOK, SessionCoherent, [Next]_vars
  PROVE  SessionCoherent'
<1>0. armed \in 0..TmrSlots /\ sys_timeout(armed) \in 0..TmrSlots /\ sys_timeout(armed) > 0
      /\ (armed > 0 => sys_timeout(armed - 1) > 0)
  BY TimeoutType DEF TypeOK, ServerTypeOK
<1> USE DEF SessionCoherent
<1>1. CASE UNCHANGED serverVars
  BY <1>1 DEF serverVars
<1>2. ASSUME NEW c \in Clients, recv(c)
      PROVE  SessionCoherent'
  <2>1. CASE RecvForeign(c)
    BY <2>1, <1>1 DEF RecvForeign
  <2>2. CASE RecvRequestBusy(c)
    BY <2>2 DEF RecvRequestBusy
  <2>3. CASE RecvRequestRefused(c)
    BY <2>3 DEF RecvRequestRefused
  <2>4. CASE RecvWrq(c)
    BY <2>4, <1>0, ServerAssumption DEF RecvWrq
  <2>5. CASE RecvRrq(c)
    BY <2>5, <1>0, SendDataCoherent DEF RecvRrq
  <2>6. CASE RecvDataDuplicate(c)
    BY <2>6, CloseCoherent DEF RecvDataDuplicate, keep
  <2>7. CASE RecvDataWrite(c)
    BY <2>7, CloseCoherent DEF RecvDataWrite, keep
  <2>8. CASE RecvDataWriteError(c)
    BY <2>8, CloseCoherent DEF RecvDataWriteError
  <2>9. CASE RecvRejected(c)
    BY <2>9 DEF RecvRejected
  <2>10. CASE RecvAck(c)
    BY <2>10, <1>0, SendDataCoherent DEF RecvAck, AcceptedAck
  <2>11. CASE RecvLastAck(c)
    BY <2>11, CloseCoherent DEF RecvLastAck
  <2> QED
    BY <1>2, <2>1, <2>2, <2>3, <2>4, <2>5, <2>6, <2>7, <2>8, <2>9, <2>10, <2>11 DEF recv
<1>3. CASE tftp_tmr
  BY <1>3, <1>0, CloseCoherent
  DEF tftp_tmr, TmrNoSession, TmrWait, TmrResend, TmrClose, TmrFires, keep
<1>4. CASE casper_tftp_init
  BY <1>4 DEF casper_tftp_init
<1>5. ASSUME NEW c \in Clients, ClientStep(c) \/ Lose(c)
      PROVE  SessionCoherent'
  BY <1>1, <1>5
  DEF ClientStep, Start, GetAck0, GetAck, GetData, GetDataAgain, GetError, Resend,
      Quit, Lose
<1>6. CASE UNCHANGED vars
  BY <1>1, <1>6 DEF vars
<1> QED
  BY <1>2, <1>3, <1>4, <1>5, <1>6 DEF Next, RecvStep, TmrStep, InitStep

\* An open session always has an armed tftp_tmr and a peer, and a closed one
\* keeps no packet, peer or context function behind, although refused
\* requests leave timers armed and the pool of timers may be empty.
THEOREM SessionCoherence == Spec => []SessionCoherent
<1>1. Init => SessionCoherent
  BY DEF Init, ServerInit, SessionCoherent
<1> QED
  BY <1>1, CoherentStep, TypeCorrect, PTL DEF Spec

(***************************************************************************)
(* Channels of a writer.                                                   *)
(***************************************************************************)

\* Losing or handling the head keeps the order of the rest.
LEMMA FlightTail ==
  ASSUME NEW q \in Seq(Packet), q # <<>>, NEW k \in Nat, NEW n \in Nat,
         InFlight(q, k, n)
  PROVE  InFlight(Tail(q), k, n)
BY TailElems DEF InFlight

\* Once the head, a block, is stored, no older packet is left.
LEMMA FlightAdvance ==
  ASSUME NEW q \in Seq(Packet), q # <<>>, NEW k \in Nat, NEW n \in Nat,
         InFlight(q, k, n), Head(q).op # "ERROR"
  PROVE  InFlight(Tail(q), Head(q).data, n)
BY TailElems DEF InFlight

\* What may enter the channel: an error, or a packet of the order's end.
LEMMA FlightPut ==
  ASSUME NEW q \in Seq(Packet), NEW k \in Nat, NEW n \in Nat, InFlight(q, k, n),
         NEW m \in Packet, m.op \in {"WRQ", "DATA", "ERROR"},
         m.op = "DATA" => m = Data(BlockPkt(m.data)),
         m.op # "ERROR" =>
           /\ k <= m.data /\ m.data <= n + 1
           /\ \A p \in 1..Len(q) : q[p].op # "ERROR" => q[p].data <= m.data
  PROVE  InFlight(Put(q, m), k, n)
BY PutElems DEF InFlight

\* A writer that knows more allows more.
LEMMA FlightMore ==
  ASSUME NEW q \in Seq(Packet), NEW k \in Nat, NEW n \in Nat, InFlight(q, k, n)
  PROVE  InFlight(q, k, n + 1)
<1>1. \A p \in 1..Len(q) : q[p].data \in Nat
  BY PacketFields, ServerAssumption DEF Block
<1> QED
  BY <1>1 DEF InFlight

LEMMA AnswersTail ==
  ASSUME NEW q \in Seq(Packet), q # <<>>, NEW k \in Nat, Answers(q, k)
  PROVE  Answers(Tail(q), k)
BY TailElems DEF Answers

LEMMA AnswersPut ==
  ASSUME NEW q \in Seq(Packet), NEW k \in Nat, Answers(q, k),
         NEW m \in Packet, m.op \in {"ACK", "ERROR"}, m.blk <= k
  PROVE  Answers(Put(q, m), k)
BY PutElems DEF Answers

LEMMA AnswersMore ==
  ASSUME NEW q \in Seq(Packet), NEW k \in Nat, Answers(q, k)
  PROVE  Answers(q, k + 1)
<1>1. \A p \in 1..Len(q) : q[p].blk \in Nat
  BY PacketFields, ServerAssumption DEF BlkNum
<1> QED
  BY <1>1 DEF Answers

LEMMA NoBlocksTail ==
  ASSUME NEW q \in Seq(Packet), q # <<>>, NoBlocks(q)
  PROVE  NoBlocks(Tail(q))
BY TailElems DEF NoBlocks

LEMMA NoBlocksPut ==
  ASSUME NEW q \in Seq(Packet), NoBlocks(q), NEW m \in Packet, m.op # "DATA"
  PROVE  NoBlocks(Put(q, m))
BY PutElems DEF NoBlocks

\* In a channel without blocks every packet's index is 0.
LEMMA NoBlocksZero ==
  ASSUME NEW q \in Seq(Packet), NoBlocks(q)
  PROVE  \A p \in 1..Len(q) : q[p].data = 0
BY PacketFields DEF NoBlocks

(***************************************************************************)
(* Clients a step does not touch.                                          *)
(***************************************************************************)
Clean(c) ==
  /\ cstate'[c] = cstate[c] /\ count'[c] = count[c] /\ stored'[c] = stored[c]
  /\ toSrv'[c] = toSrv[c]

LEMMA WriterFrame ==
  ASSUME NEW c \in Writers, WriterInv(c), Clean(c), toCli'[c] = toCli[c]
  PROVE  WriterInv(c)'
BY DEF Clean, WriterInv, InFlight, Answers, NoBlocks

LEMMA ReaderFrame ==
  ASSUME NEW c, ReaderInv(c), Clean(c)
  PROVE  ReaderInv(c)'
BY DEF Clean, ReaderInv

ClientsInv ==
  /\ \A c \in Writers : WriterInv(c)
  /\ \A c \in Clients \ Writers : ReaderInv(c)

\* The natural numbers a client's invariant speaks of.
LEMMA ClientTypes ==
  ASSUME TypeOK, NEW c \in Clients
  PROVE  /\ toSrv[c] \in Seq(Packet) /\ toCli[c] \in Seq(Packet)
         /\ Len(stored[c]) \in Nat /\ count[c] \in Nat
         /\ stored[c] \in Seq(Clients \X Block)
BY ServerAssumption DEF TypeOK, ServerTypeOK

(***************************************************************************)
(* The server's answers.  Most packets change nothing in what is stored:   *)
(* the server takes the packet off the channel and may reply.              *)
(***************************************************************************)
LEMMA ConsumeReply ==
  ASSUME TypeOK, WriteInv, NEW c \in Clients, toSrv[c] # <<>>, Consume(c),
         stored' = stored, UNCHANGED clientVars,
         \/ UNCHANGED toCli
         \/ \E m \in Packet :
              /\ send(c, m)
              /\ c \in Writers => /\ m.op \in {"ACK", "ERROR"}
                                  /\ m.blk <= Len(stored[c])
  PROVE  ClientsInv'
<1>1. \A d \in Clients \ {c} : Clean(d) /\ toCli'[d] = toCli[d]
  BY DEF Consume, send, Clean, clientVars, TypeOK, ServerTypeOK
<1>2. \A d \in Clients \ {c} : /\ d \in Writers => WriterInv(d)'
                               /\ d \notin Writers => ReaderInv(d)'
  BY <1>1, WriterFrame, ReaderFrame DEF WriteInv
<1>3. ASSUME c \in Writers PROVE WriterInv(c)'
  <2>1. WriterInv(c) /\ toSrv'[c] = Tail(toSrv[c])
    BY <1>3 DEF WriteInv, Consume, TypeOK, ServerTypeOK
  <2>2. InFlight(toSrv'[c], Len(stored[c]), count[c])
    BY <2>1, FlightTail, ClientTypes DEF WriterInv
  <2>3. cstate[c] \in {"idle", "wrq"} => NoBlocks(toSrv'[c])
    BY <2>1, NoBlocksTail, ClientTypes DEF WriterInv
  <2>4. Answers(toCli'[c], Len(stored[c]))
    <3>1. CASE UNCHANGED toCli
      BY <2>1, <3>1 DEF WriterInv
    <3>2. ASSUME NEW m \in Packet, send(c, m), m.op \in {"ACK", "ERROR"},
                 m.blk <= Len(stored[c])
          PROVE  Answers(toCli'[c], Len(stored[c]))
      <4>1. toCli'[c] = Put(toCli[c], m)
        BY <3>2 DEF send, TypeOK, ServerTypeOK
      <4> QED
        BY <2>1, <3>2, <4>1, AnswersPut, ClientTypes DEF WriterInv
    <3> QED
      BY <1>3, <3>1, <3>2
  <2> QED
    BY <2>1, <2>2, <2>3, <2>4 DEF WriterInv, clientVars, InFlight, NoBlocks, Answers
<1>4. ASSUME c \notin Writers PROVE ReaderInv(c)'
  <2>1. ReaderInv(c) /\ toSrv'[c] = Tail(toSrv[c])
    BY <1>4 DEF WriteInv, Consume, TypeOK, ServerTypeOK
  <2> QED
    BY <2>1, TailElems, ClientTypes DEF ReaderInv, clientVars
<1> QED
  BY <1>2, <1>3, <1>4, ClientAssumption DEF ClientsInv

\* Where a packet of client c comes from.
LEMMA HeadFacts ==
  ASSUME TypeOK, WriteInv, NEW c \in Clients, toSrv[c] # <<>>
  PROVE  /\ Head1(c) \in Packet
         /\ c \notin Writers => Head1(c).op \in {"RRQ", "ACK", "ERROR"}
         /\ c \in Writers =>
              /\ Head1(c).op \in {"WRQ", "DATA", "ERROR"}
              /\ Head1(c).op = "DATA" => Head1(c) = Data(BlockPkt(Head1(c).data))
              /\ Head1(c).op # "ERROR" => /\ Len(stored[c]) <= Head1(c).data
                                          /\ Head1(c).data <= count[c] + 1
<1>1. toSrv[c] \in Seq(Packet)
  BY ClientTypes
<1>2. Head1(c) \in Packet /\ Head1(c) = toSrv[c][1] /\ 1 \in 1..Len(toSrv[c])
  BY <1>1, TailElems DEF Head1
<1>3. c \in Writers => InFlight(toSrv[c], Len(stored[c]), count[c])
  BY DEF WriteInv, WriterInv
<1>4. c \notin Writers => ReaderInv(c)
  BY DEF WriteInv
<1> QED
  BY <1>2, <1>3, <1>4 DEF InFlight, ReaderInv

\* An error packet is an answer to anyone.
LEMMA ErrorAnswer ==
  Error \in Packet /\ Error.op = "ERROR" /\ Error.blk = 0
BY PacketTypes DEF Error

LEMMA AckAnswer ==
  ASSUME NEW b \in BlkNum
  PROVE  Ack(b) \in Packet /\ Ack(b).op = "ACK" /\ Ack(b).blk = b
BY PacketTypes DEF Ack

\* Handling that only answers with an error leaves the clients' part alone.
LEMMA ErrorReply ==
  ASSUME TypeOK, WriteInv, NEW c \in Clients, toSrv[c] # <<>>, Consume(c),
         send_error(c), stored' = stored, UNCHANGED clientVars
  PROVE  ClientsInv'
<1>1. 0 <= Len(stored[c])
  BY ClientTypes
<1> QED
  BY <1>1, ErrorAnswer, ConsumeReply DEF send_error

\* A data packet goes to readers only.
LEMMA SendDataReply ==
  ASSUME TypeOK, WriteInv, NEW c \in Clients \ Writers, toSrv[c] # <<>>, Consume(c),
         NEW p \in 0..FileLen, NEW b \in BlkNum, NEW fn, NEW a,
         send_data(c, p, b, fn, a), stored' = stored, UNCHANGED clientVars
  PROVE  ClientsInv'
<1>1. CASE SendDataNoMem(c, fn, a)
  BY <1>1, ConsumeReply DEF SendDataNoMem
<1>2. CASE SendDataReadError(c, a)
  BY <1>2, ErrorReply DEF SendDataReadError
<1>3. CASE SendDataOk(c, p, b, fn, a)
  <2> DEFINE d == [blk |-> b, data |-> p + 1, full |-> p + 1 < FileLen]
  <2>1. d \in DataPkt /\ send(c, Data(d))
    BY <1>3, ServerAssumption DEF SendDataOk, DataPkt, Block
  <2> QED
    BY <2>1, PacketTypes, ConsumeReply
<1> QED
  BY <1>1, <1>2, <1>3 DEF send_data

\* send_data leaves SessionInv to the reader it serves.
LEMMA SendDataSession ==
  ASSUME NEW c \in Clients \ Writers, NEW p, NEW b, NEW fn, NEW a,
         send_data(c, p, b, fn, a), mode_write' = FALSE
  PROVE  SessionInv'
BY DEF send_data, SendDataNoMem, SendDataReadError, SendDataOk, close_handle, SessionInv

LEMMA CloseSession ==
  ASSUME NEW a, close_handle(a)
  PROVE  SessionInv'
BY DEF close_handle, SessionInv

\* A block number below the u16_t range is itself.
LEMMA NoWrap ==
  ASSUME NEW x \in Nat, x < BlkMod
  PROVE  x % BlkMod = x
BY ServerAssumption

\* The u16_t of a block number is the block's index as long as it fits.
LEMMA BlockNumber ==
  ASSUME FileLen < BlkMod, NEW i \in Block
  PROVE  /\ Data(BlockPkt(i)).blk = i
         /\ Data(BlockPkt(i)).full <=> i < FileLen
<1>1. i \in Nat /\ i < BlkMod
  BY ServerAssumption DEF Block
<1>2. i % BlkMod = i
  BY <1>1, NoWrap
<1> QED
  BY <1>1, <1>2 DEF BlockPkt, Data

\* A block arriving in an open write session is the last one stored or the
\* next one, and the block number on the wire tells which.
LEMMA WhichBlock ==
  ASSUME FileLen < BlkMod, TypeOK, SessionCoherent, WriteInv, NEW c \in Clients,
         Accepted(c, {"DATA"}), handle, mode_write
  PROVE  /\ c \in Writers /\ peer = c /\ Head1(c).data \in Block
         /\ Head1(c).blk = Head1(c).data
         /\ Head1(c).full <=> Head1(c).data < FileLen
         /\ Len(stored[c]) < FileLen /\ blknum = Len(stored[c]) + 1
         /\ IsDuplicate(Head1(c).blk) => Head1(c).data = Len(stored[c])
         /\ ~IsDuplicate(Head1(c).blk) => Head1(c).data = Len(stored[c]) + 1
         /\ Head1(c).data <= count[c] + 1
<1>1. toSrv[c] # <<>> /\ peer = c /\ Head1(c).op = "DATA"
  BY DEF Accepted, Foreign, SessionCoherent
<1>2. c \in Writers /\ Len(stored[c]) < FileLen /\ blknum = Len(stored[c]) + 1
  BY <1>1 DEF WriteInv, SessionInv
<1>3. /\ Head1(c).data \in Block /\ Head1(c) = Data(BlockPkt(Head1(c).data))
      /\ Len(stored[c]) <= Head1(c).data /\ Head1(c).data <= count[c] + 1
  BY <1>1, <1>2, HeadFacts, PacketFields
<1>4. Head1(c).blk = Head1(c).data /\ (Head1(c).full <=> Head1(c).data < FileLen)
  BY <1>3, BlockNumber
<1>5. count[c] <= Len(stored[c]) /\ Len(stored[c]) \in Nat /\ count[c] \in Nat
      /\ Head1(c).data \in Nat
  BY <1>2, <1>3, ClientTypes DEF WriteInv, WriterInv, Block
<1> QED
  BY <1>1, <1>2, <1>3, <1>4, <1>5 DEF IsDuplicate

\* Storing a block: the step the whole argument is about.
LEMMA DataWriteStep ==
  ASSUME FileLen < BlkMod, TypeOK, SessionCoherent, WriteInv, NEW c \in Clients,
         RecvDataWrite(c), UNCHANGED clientVars
  PROVE  WriteInv'
<1> DEFINE i == Head1(c).data
           k == Len(stored[c])
<1>1. /\ c \in Writers /\ peer = c /\ i \in Block /\ Head1(c).blk = i
      /\ Head1(c).full <=> i < FileLen
      /\ k < FileLen /\ i = k + 1 /\ i <= count[c] + 1
  BY WhichBlock DEF RecvDataWrite
<1>2. /\ toSrv[c] # <<>> /\ Consume(c) /\ Head1(c).op = "DATA"
      /\ stored' = [stored EXCEPT ![c] = Append(@, <<c, i>>)]
      /\ send(c, Ack(i)) /\ blknum' = (i + 1) % BlkMod /\ mode_write' = mode_write
  BY <1>1 DEF RecvDataWrite, Accepted, send_ack
<1>3. /\ k \in Nat /\ count[c] \in Nat /\ stored[c] \in Seq(Clients \X Block)
      /\ toSrv[c] \in Seq(Packet) /\ toCli[c] \in Seq(Packet)
  BY ClientTypes
<1>4. /\ stored'[c] = Append(stored[c], <<c, i>>) /\ Len(stored'[c]) = k + 1
      /\ toSrv'[c] = Tail(toSrv[c]) /\ toCli'[c] = Put(toCli[c], Ack(i))
  BY <1>2, <1>3, SMTT(30) DEF Consume, send, TypeOK, ServerTypeOK
<1>5. WriterInv(c)
  BY <1>1 DEF WriteInv
<1>6. WriterInv(c)'
  <2>1. \A j \in 1..Len(stored'[c]) : stored'[c][j] = <<c, j>>
    BY <1>1, <1>3, <1>4, <1>5 DEF WriterInv
  <2>2. InFlight(toSrv'[c], k + 1, count[c])
    BY <1>1, <1>2, <1>3, <1>4, <1>5, FlightAdvance DEF WriterInv, Head1
  <2>3. cstate[c] \notin {"idle", "wrq"}
    <3>1. 1 \in 1..Len(toSrv[c]) /\ toSrv[c][1].op = "DATA"
      BY <1>2, <1>3, TailElems DEF Head1
    <3> QED
      BY <1>5, <3>1 DEF WriterInv, NoBlocks
  <2>4. Answers(toCli'[c], k + 1)
    <3>1. Answers(toCli[c], k + 1)
      BY <1>3, <1>5, AnswersMore DEF WriterInv
    <3>2. i \in BlkNum /\ k + 1 \in Nat
      BY <1>1, <1>3, ServerAssumption DEF BlkNum, Block
    <3>3. Ack(i) \in Packet /\ Ack(i).op = "ACK" /\ Ack(i).blk = i
      BY <3>2, AckAnswer
    <3> QED
      BY <1>1, <1>3, <1>4, <3>1, <3>2, <3>3, AnswersPut
  <2>5. count[c] <= k + 1 /\ k + 1 <= count[c] + 1
    BY <1>1, <1>3, <1>5 DEF WriterInv
  <2> QED
    BY <1>4, <1>5, <2>1, <2>2, <2>3, <2>4, <2>5
    DEF WriterInv, clientVars, InFlight, Answers, NoBlocks
<1>7. \A d \in Clients \ {c} : Clean(d) /\ toCli'[d] = toCli[d]
  BY <1>2 DEF Consume, send, Clean, clientVars, TypeOK, ServerTypeOK
<1>8. \A d \in Clients \ {c} : /\ d \in Writers => WriterInv(d)'
                               /\ d \notin Writers => ReaderInv(d)'
  BY <1>7, WriterFrame, ReaderFrame DEF WriteInv
<1>9. SessionInv'
  <2>1. CASE i < FileLen
    <3>1. blknum' = i + 1
      <4>1. i + 1 \in Nat /\ i + 1 < BlkMod
        BY <1>1, <2>1, ServerAssumption DEF Block
      <4> QED
        BY <1>2, <4>1, NoWrap
    <3>2. handle' = handle /\ peer' = c /\ last_data' = last_data
      BY <1>1, <2>1 DEF RecvDataWrite, keep
    <3> QED
      BY <1>1, <1>3, <1>4, <2>1, <3>1, <3>2, ServerAssumption DEF SessionInv, WriteInv, Block
  <2>2. CASE ~(i < FileLen)
    BY <1>1, <2>2, CloseSession DEF RecvDataWrite
  <2> QED
    BY <2>1, <2>2
<1> QED
  BY <1>1, <1>6, <1>8, <1>9, ClientAssumption DEF WriteInv

\* Every packet the server handles preserves the invariant.
LEMMA RecvWriteInv ==
  ASSUME FileLen < BlkMod, TypeOK, SessionCoherent, WriteInv, NEW c \in Clients,
         RecvStep(c)
  PROVE  WriteInv'
<1>0. UNCHANGED clientVars
  BY DEF RecvStep
<1>a. SUFFICES ASSUME ~RecvDataWrite(c)
               PROVE  ClientsInv' /\ SessionInv'
  BY <1>0, DataWriteStep DEF WriteInv, ClientsInv
<1>1. CASE RecvForeign(c)
  BY <1>0, <1>1, ErrorReply DEF RecvForeign, serverVars, WriteInv, SessionInv
<1>2. CASE RecvRequestBusy(c)
  BY <1>0, <1>2, ErrorReply DEF RecvRequestBusy, Accepted, WriteInv, SessionInv
<1>3. CASE RecvRequestRefused(c)
  <2>1. ClientsInv'
    BY <1>0, <1>3, ErrorReply DEF RecvRequestRefused, Accepted
  <2> QED
    BY <1>3, <2>1 DEF RecvRequestRefused, WriteInv, SessionInv
<1>4. CASE RecvWrq(c)
  <2>1. /\ toSrv[c] # <<>> /\ Consume(c) /\ Head1(c).op = "WRQ"
        /\ send(c, Ack(0)) /\ stored' = [stored EXCEPT ![c] = <<>>]
        /\ handle' /\ mode_write' /\ peer' = c /\ blknum' = 1
        /\ ~handle /\ last_data' = last_data
    BY <1>4 DEF RecvWrq, Accepted, send_ack
  <2>2. c \in Writers /\ Head1(c).data = 0 /\ Len(stored[c]) <= 0
    BY <2>1, HeadFacts, PacketFields
  <2>3. stored[c] = <<>>
    BY <2>2, ClientTypes
  <2>4. stored' = stored
    BY <2>1, <2>3 DEF TypeOK, ServerTypeOK
  <2>5. 0 \in BlkNum
    BY ServerAssumption DEF BlkNum
  <2>6. ClientsInv'
    BY <1>0, <2>1, <2>2, <2>3, <2>4, <2>5, AckAnswer, ConsumeReply
  <2>7. SessionInv'
    BY <2>1, <2>2, <2>3, <2>4, ServerAssumption DEF SessionInv, SessionCoherent
  <2> QED
    BY <2>6, <2>7
<1>5. CASE RecvRrq(c)
  <2>1. /\ toSrv[c] # <<>> /\ Consume(c) /\ Head1(c).op = "RRQ"
        /\ send_data(c, 0, 1, "read", sys_timeout(armed))
        /\ stored' = stored /\ mode_write' = FALSE
    BY <1>5 DEF RecvRrq, Accepted
  <2>2. c \in Clients \ Writers
    BY <2>1, HeadFacts
  <2>3. 0 \in 0..FileLen /\ 1 \in BlkNum
    BY ServerAssumption DEF BlkNum
  <2> QED
    BY <1>0, <2>1, <2>2, <2>3, SendDataReply, SendDataSession
<1>6. CASE RecvDataDuplicate(c)
  <2>1. /\ toSrv[c] # <<>> /\ Consume(c) /\ Accepted(c, {"DATA"})
        /\ send(c, Ack(Head1(c).blk)) /\ stored' = stored
        /\ handle /\ mode_write /\ IsDuplicate(Head1(c).blk)
    BY <1>6 DEF RecvDataDuplicate, Accepted, send_ack
  <2>2. c \in Writers /\ Head1(c).blk = Len(stored[c])
    BY <2>1, WhichBlock
  <2>3. Head1(c).blk \in BlkNum
    BY <2>1, HeadFacts, PacketFields
  <2>4. ClientsInv'
    <3>1. Ack(Head1(c).blk) \in Packet /\ Ack(Head1(c).blk).op = "ACK"
          /\ Ack(Head1(c).blk).blk <= Len(stored[c])
      BY <2>2, <2>3, AckAnswer, ClientTypes
    <3> QED
      BY <1>0, <2>1, <3>1, ConsumeReply
  <2>5. SessionInv'
    <3>1. CASE Head1(c).full
      BY <1>6, <3>1 DEF RecvDataDuplicate, keep, WriteInv, SessionInv
    <3>2. CASE ~Head1(c).full
      BY <1>6, <3>2, CloseSession DEF RecvDataDuplicate
    <3> QED
      BY <3>1, <3>2
  <2> QED
    BY <2>4, <2>5
<1>8. CASE RecvDataWriteError(c)
  BY <1>0, <1>8, ErrorReply, CloseSession DEF RecvDataWriteError, Accepted
<1>9. CASE RecvRejected(c)
  <2>1. ClientsInv'
    BY <1>0, <1>9, ErrorReply DEF RecvRejected, Accepted
  <2> QED
    BY <1>9, <2>1 DEF RecvRejected, WriteInv, SessionInv
<1>10. CASE RecvAck(c)
  <2>1. /\ toSrv[c] # <<>> /\ Consume(c) /\ Head1(c).op = "ACK"
        /\ blknum' = (blknum + 1) % BlkMod
        /\ send_data(c, rdpos, blknum', ctxfn, armed)
        /\ stored' = stored /\ mode_write' = FALSE
    BY <1>10 DEF RecvAck, AcceptedAck, Accepted, TypeOK, ServerTypeOK
  <2>2. c \in Clients \ Writers
    BY <2>1, HeadFacts
  <2>3. rdpos \in 0..FileLen /\ blknum' \in BlkNum
    BY <2>1, ServerAssumption DEF TypeOK, ServerTypeOK, BlkNum
  <2> QED
    BY <1>0, <2>1, <2>2, <2>3, SendDataReply, SendDataSession
<1>11. CASE RecvLastAck(c)
  <2>1. ClientsInv'
    BY <1>0, <1>11, ConsumeReply DEF RecvLastAck, AcceptedAck, Accepted
  <2> QED
    BY <1>11, <2>1, CloseSession DEF RecvLastAck
<1> QED
  BY <1>a, <1>1, <1>2, <1>3, <1>4, <1>5, <1>6, <1>8, <1>9, <1>10, <1>11
  DEF RecvStep, recv

\* The timer resends to readers only and never touches what is stored.
LEMMA TmrWriteInv ==
  ASSUME TypeOK, SessionCoherent, WriteInv, TmrStep
  PROVE  WriteInv'
<1>1. \A d \in Clients : Clean(d)
  BY DEF TmrStep, tftp_tmr, TmrNoSession, TmrWait, TmrResend, TmrClose, clientVars, Clean
<1>2. \A d \in Writers : toCli'[d] = toCli[d]
  <2>1. CASE TmrResend
    <3>1. peer \in Clients \ Writers
      BY <2>1 DEF TmrResend, WriteInv, SessionInv
    <3> QED
      BY <2>1, <3>1, ClientAssumption DEF TmrResend, resend_data, send, TypeOK, ServerTypeOK
  <2> QED
    BY <2>1 DEF TmrStep, tftp_tmr, TmrNoSession, TmrWait, TmrClose
<1>3. ClientsInv'
  BY <1>1, <1>2, WriterFrame, ReaderFrame, ClientAssumption DEF WriteInv, ClientsInv
<1>4. SessionInv'
  <2>1. CASE TmrClose
    BY <2>1, CloseSession DEF TmrClose
  <2> QED
    BY <2>1 DEF TmrStep, tftp_tmr, TmrNoSession, TmrWait, TmrResend, keep, WriteInv, SessionInv
<1> QED
  BY <1>3, <1>4 DEF WriteInv, ClientsInv

(***************************************************************************)
(* The clients' steps.                                                     *)
(***************************************************************************)

\* A step of client c is nobody else's business: it suffices to look at c.
LEMMA ClientFrame ==
  ASSUME TypeOK, WriteInv, NEW c \in Clients, UNCHANGED serverVars,
         \A d \in Clients \ {c} : Clean(d) /\ toCli'[d] = toCli[d],
         c \in Writers => WriterInv(c)',
         c \notin Writers => ReaderInv(c)'
  PROVE  WriteInv'
<1>1. \A d \in Clients \ {c} : /\ d \in Writers => WriterInv(d)'
                               /\ d \notin Writers => ReaderInv(d)'
  BY WriterFrame, ReaderFrame DEF WriteInv
<1>2. SessionInv'
  BY DEF WriteInv, SessionInv, serverVars
<1> QED
  BY <1>1, <1>2, ClientAssumption DEF WriteInv

LEMMA ClientWriteInv ==
  ASSUME FileLen < BlkMod, TypeOK, ClientCoherent, WriteInv, NEW c \in Clients,
         ClientStep(c) \/ Lose(c)
  PROVE  WriteInv'
<1> USE DEF ClientStep, Start, GetAck0, GetAck, GetData, GetDataAgain, GetError,
            Resend, Quit, Lose
<1>1. UNCHANGED serverVars
  OBVIOUS
<1>2. \A d \in Clients \ {c} : Clean(d) /\ toCli'[d] = toCli[d]
  BY <1>1 DEF Clean, serverVars, clientVars, ClientSend, ClientTake, Consume, TypeOK, ServerTypeOK
<1> DEFINE k == Len(stored[c])
           n == count[c]
<1>3. /\ toSrv[c] \in Seq(Packet) /\ toCli[c] \in Seq(Packet)
      /\ k \in Nat /\ n \in Nat /\ stored'[c] = stored[c]
  BY <1>1, ClientTypes DEF serverVars
<1> HIDE DEF ClientStep, Start, GetAck0, GetAck, GetData, GetDataAgain, GetError,
            Resend, Quit, Lose
<1>4. ASSUME c \notin Writers PROVE ReaderInv(c)'
  <2>1. ReaderInv(c)
    BY <1>4 DEF WriteInv
  <2>2. ASSUME NEW m \in Packet, ClientSend(c, m), m.op \in {"RRQ", "ACK", "ERROR"}
        PROVE  \A p \in 1..Len(toSrv'[c]) : toSrv'[c][p].op \in {"RRQ", "ACK", "ERROR"}
    <3>1. toSrv'[c] = Put(toSrv[c], m)
      BY <2>2 DEF ClientSend, TypeOK, ServerTypeOK
    <3> QED
      BY <1>3, <2>1, <2>2, <3>1, PutElems DEF ReaderInv
  <2>3. \A b \in BlkNum : Ack(b) \in Packet /\ Ack(b).op = "ACK"
    BY AckAnswer
  <2>4. Request("RRQ") \in Packet /\ Request("RRQ").op = "RRQ"
    BY PacketTypes DEF Request
  <2>5. ClientTake(c) => Reply(c).blk \in BlkNum
    BY ClientTakeType, PacketFields
  <2>6. CASE Start(c)
    BY <1>3, <1>4, <2>1, <2>2, <2>4, <2>6 DEF Start, ReaderInv, TypeOK
  <2>7. CASE GetData(c)
    BY <1>3, <2>1, <2>2, <2>3, <2>5, <2>7 DEF GetData, ReaderInv, TypeOK
  <2>8. CASE GetDataAgain(c)
    BY <1>3, <2>1, <2>2, <2>3, <2>5, <2>8 DEF GetDataAgain, ReaderInv, clientVars
  <2>9. CASE GetError(c)
    BY <1>3, <2>1, <2>9 DEF GetError, ReaderInv, TypeOK
  <2>10. CASE Resend(c)
    <3>1. n % BlkMod \in BlkNum
      BY <1>3, ServerAssumption DEF BlkNum
    <3> QED
      BY <1>3, <2>1, <2>2, <2>3, <2>4, <2>10, <3>1 DEF Resend, ReaderInv, clientVars
  <2>11. CASE Quit(c)
    BY <1>3, <2>1, <2>2, <2>11, ErrorAnswer DEF Quit, ReaderInv, TypeOK
  <2>12. CASE Lose(c)
    <3>1. CASE UNCHANGED toSrv
      BY <1>3, <2>1, <2>12, <3>1 DEF Lose, ReaderInv, clientVars
    <3>2. CASE toSrv[c] # <<>> /\ Consume(c)
      <4>1. toSrv'[c] = Tail(toSrv[c])
        BY <3>2 DEF Consume, TypeOK, ServerTypeOK
      <4> QED
        BY <1>3, <2>1, <2>12, <3>2, <4>1, TailElems DEF Lose, ReaderInv, clientVars
    <3> QED
      BY <2>12, <3>1, <3>2 DEF Lose
  <2>13. ~GetAck0(c) /\ ~GetAck(c)
    BY <2>1 DEF GetAck0, GetAck, ReaderInv
  <2> QED
    BY <2>6, <2>7, <2>8, <2>9, <2>10, <2>11, <2>12, <2>13 DEF ClientStep
<1>5. ASSUME c \in Writers PROVE WriterInv(c)'
  <2>1. WriterInv(c)
    BY <1>5 DEF WriteInv
  <2>2. /\ InFlight(toSrv[c], k, n) /\ Answers(toCli[c], k)
        /\ n <= k /\ k <= n + 1
    BY <2>1 DEF WriterInv
  <2>3. SUFFICES /\ cstate'[c] \notin {"rrq", "reading"}
                 /\ count'[c] <= k /\ k <= count'[c] + 1
                 /\ InFlight(toSrv'[c], k, count'[c])
                 /\ cstate'[c] \in {"idle", "wrq"} =>
                      stored[c] = <<>> /\ NoBlocks(toSrv'[c])
                 /\ Answers(toCli'[c], k)
    BY <1>3, <2>1 DEF WriterInv, InFlight, Answers, NoBlocks
  <2>4. ClientTake(c) => Answers(toCli'[c], k)
    <3>1. ClientTake(c) => toCli[c] # <<>> /\ toCli'[c] = Tail(toCli[c])
      BY DEF ClientTake, TypeOK, ServerTypeOK
    <3> QED
      BY <1>3, <2>2, <3>1, AnswersTail
  <2>5. ASSUME ClientTake(c)
        PROVE  Reply(c).op \in {"ACK", "ERROR"} /\ Reply(c).blk <= k
    <3>1. 1 \in 1..Len(toCli[c]) /\ Reply(c) = toCli[c][1]
      BY <1>3, <2>5, TailElems DEF ClientTake, Reply
    <3> QED
      BY <2>2, <3>1 DEF Answers
  <2>6. \A m : ClientSend(c, m) => toSrv'[c] = Put(toSrv[c], m)
    BY DEF ClientSend, TypeOK, ServerTypeOK
  \* Sending a request while nothing is stored or in flight.
  <2>7. ASSUME cstate[c] \in {"idle", "wrq"}, ClientSend(c, Request("WRQ"))
        PROVE  InFlight(toSrv'[c], k, n) /\ NoBlocks(toSrv'[c])
    <3>1. stored[c] = <<>> /\ k = 0 /\ NoBlocks(toSrv[c])
      BY <1>3, <2>1, <2>7 DEF WriterInv
    <3>2. \A p \in 1..Len(toSrv[c]) : toSrv[c][p].data = 0
      BY <1>3, <3>1, NoBlocksZero
    <3>3. /\ Request("WRQ") \in Packet /\ Request("WRQ").op = "WRQ"
          /\ Request("WRQ").data = 0
      BY PacketTypes DEF Request
    <3> QED
      BY <1>3, <2>2, <2>6, <2>7, <3>1, <3>2, <3>3, FlightPut, NoBlocksPut
  \* Sending block i, the one after the known ones.
  <2>8. ASSUME NEW j \in Nat, InFlight(toSrv[c], k, j), k <= j + 1, j + 1 \in Block,
               ClientSend(c, Data(BlockPkt(j + 1)))
        PROVE  InFlight(toSrv'[c], k, j)
    <3> DEFINE m == Data(BlockPkt(j + 1))
    <3>1. m \in Packet /\ m.op = "DATA" /\ m.data = j + 1
      BY <2>8, PacketTypes DEF Data, BlockPkt
    <3>2. \A p \in 1..Len(toSrv[c]) :
            toSrv[c][p].op # "ERROR" => toSrv[c][p].data <= j + 1
      BY <2>8 DEF InFlight
    <3>3. toSrv'[c] = Put(toSrv[c], m)
      BY <2>6, <2>8
    <3> HIDE DEF m
    <3>4. m = Data(BlockPkt(m.data))
      BY <3>1 DEF m
    <3> QED
      BY <1>3, <2>8, <3>1, <3>2, <3>3, <3>4, FlightPut
  <2>9. CASE Start(c)
    BY <1>3, <1>5, <2>1, <2>2, <2>7, <2>9 DEF Start, WriterInv, TypeOK, CState
  <2>10. CASE GetAck0(c)
    <3>1. n = 0 /\ k = 0
      BY <1>3, <2>1, <2>10 DEF GetAck0, ClientCoherent, WriterInv
    <3>2. 1 \in Block
      BY ServerAssumption DEF Block
    <3>3. InFlight(toSrv'[c], k, n)
      BY <1>3, <2>2, <2>8, <2>10, <3>1, <3>2 DEF GetAck0
    <3> QED
      BY <1>3, <2>2, <2>4, <2>10, <3>3 DEF GetAck0, TypeOK
  <2>11. CASE GetAck(c)
    <3>1. n < FileLen /\ n + 1 \in Nat /\ n + 1 < BlkMod /\ cstate[c] = "writing"
      BY <1>3, <2>11, ServerAssumption DEF GetAck, ClientCoherent
    <3>2. Reply(c).blk = n + 1
      BY <2>11, <3>1, NoWrap DEF GetAck, Ack
    <3>3. k = n + 1
      BY <1>3, <2>2, <2>5, <2>11, <3>2 DEF GetAck
    <3>4. count'[c] = n + 1 /\ cstate'[c] \in {"writing", "done"}
      BY <2>11, <3>1 DEF GetAck, TypeOK
    <3>5. InFlight(toSrv[c], k, n + 1)
      BY <1>3, <2>2, FlightMore
    <3>6. InFlight(toSrv'[c], k, n + 1)
      <4>1. CASE n + 1 = FileLen
        BY <2>11, <3>5, <4>1 DEF GetAck
      <4>2. CASE n + 1 # FileLen
        <5>1. (n + 1) + 1 \in Block /\ n + 2 = (n + 1) + 1
          BY <1>3, <3>1, <4>2, ServerAssumption DEF Block
        <5>2. ClientSend(c, Data(BlockPkt((n + 1) + 1)))
          BY <2>11, <4>2, <5>1 DEF GetAck
        <5> QED
          BY <1>3, <2>8, <3>1, <3>3, <3>5, <5>1, <5>2
      <4> QED
        BY <4>1, <4>2
    <3> QED
      BY <1>3, <2>4, <2>11, <3>3, <3>4, <3>6 DEF GetAck
  <2>12. ~GetData(c) /\ ~GetDataAgain(c)
    BY <2>1, <2>5 DEF GetData, GetDataAgain, WriterInv
  <2>13. CASE GetError(c)
    BY <2>1, <2>2, <2>4, <2>13 DEF GetError, WriterInv, TypeOK
  <2>14. CASE Resend(c)
    <3>1. cstate'[c] = cstate[c] /\ count'[c] = n /\ toCli'[c] = toCli[c]
      BY <2>14 DEF Resend, clientVars
    <3>2. CASE cstate[c] = "wrq"
      BY <2>1, <2>2, <2>7, <2>14, <3>1, <3>2 DEF Resend, WriterInv
    <3>3. CASE cstate[c] = "writing"
      <4>1. n + 1 \in Block
        BY <1>3, <3>3, ServerAssumption DEF ClientCoherent, Block
      <4> QED
        BY <1>3, <2>1, <2>2, <2>8, <2>14, <3>1, <3>3, <4>1 DEF Resend
    <3> QED
      BY <2>1, <2>14, <3>2, <3>3 DEF Resend, WriterInv
  <2>15. CASE Quit(c)
    <3>1. CASE UNCHANGED toSrv
      BY <2>1, <2>2, <2>15, <3>1 DEF Quit, WriterInv, TypeOK
    <3>2. CASE ClientSend(c, Error)
      <4>1. InFlight(toSrv'[c], k, n)
        BY <1>3, <2>2, <2>6, <3>2, ErrorAnswer, FlightPut
      <4> QED
        BY <2>1, <2>2, <2>15, <4>1 DEF Quit, WriterInv, TypeOK
    <3> QED
      BY <2>15, <3>1, <3>2 DEF Quit
  <2>16. CASE Lose(c)
    <3>1. CASE UNCHANGED toSrv /\ ClientTake(c)
      BY <2>1, <2>2, <2>4, <2>16, <3>1 DEF Lose, WriterInv, clientVars
    <3>2. CASE toSrv[c] # <<>> /\ Consume(c) /\ UNCHANGED toCli
      <4>1. toSrv'[c] = Tail(toSrv[c])
        BY <3>2 DEF Consume, TypeOK, ServerTypeOK
      <4>2. InFlight(toSrv'[c], k, n)
        BY <1>3, <2>2, <3>2, <4>1, FlightTail
      <4>3. cstate[c] \in {"idle", "wrq"} => NoBlocks(toSrv'[c])
        BY <1>3, <2>1, <3>2, <4>1, NoBlocksTail DEF WriterInv
      <4> QED
        BY <2>1, <2>2, <2>16, <3>2, <4>2, <4>3 DEF Lose, WriterInv, clientVars
    <3> QED
      BY <2>16, <3>1, <3>2 DEF Lose
  <2> QED
    BY <2>9, <2>10, <2>11, <2>12, <2>13, <2>14, <2>15, <2>16 DEF ClientStep
<1> QED
  BY <1>1, <1>2, <1>4, <1>5, ClientFrame

LEMMA WriteInvStep ==
  ASSUME FileLen < BlkMod, TypeOK, ClientCoherent, SessionCoherent, WriteInv,
         [Next]_vars
  PROVE  WriteInv'
<1>1. CASE InitStep \/ UNCHANGED vars
  <2>1. /\ \A d \in Clients : Clean(d) /\ toCli'[d] = toCli[d]
        /\ UNCHANGED <<handle, peer, mode_write, blknum, last_data, stored>>
    BY <1>1 DEF InitStep, casper_tftp_init, vars, serverVars, clientVars, Clean
  <2>2. SessionInv'
    BY <2>1 DEF SessionInv, WriteInv
  <2> QED
    BY <2>1, <2>2, WriterFrame, ReaderFrame, ClientAssumption DEF WriteInv
<1>2. ASSUME NEW c \in Clients, ClientStep(c) \/ RecvStep(c) \/ Lose(c)
      PROVE  WriteInv'
  BY <1>2, RecvWriteInv, ClientWriteInv
<1>3. CASE TmrStep
  BY <1>3, TmrWriteInv
<1> QED
  BY <1>1, <1>2, <1>3 DEF Next

\* The inductive invariant of the write protocol, for every number of clients
\* and every channel capacity.
THEOREM WriteInvariant ==
  ASSUME FileLen < BlkMod
  PROVE  Spec => []WriteInv
<1>1. Init => WriteInv
  BY ClientAssumption, ServerAssumption
  DEF Init, ServerInit, WriteInv, WriterInv, ReaderInv, SessionInv, InFlight, Answers, NoBlocks
<1>2. TypeOK /\ ClientCoherent /\ SessionCoherent /\ WriteInv /\ [Next]_vars => WriteInv'
  BY WriteInvStep
<1> QED
  BY <1>1, <1>2, TypeCorrect, SessionCoherence, PTL DEF Spec

\* The blocks recv writes for a client are its file's blocks, in order and
\* each once, provided the file is short enough for the u16_t block number
\* not to wrap.
THEOREM ExactlyOnce ==
  ASSUME FileLen < BlkMod
  PROVE  Spec => []WrittenOnceInOrder
<1>1. WriteInv => WrittenOnceInOrder
  BY DEF WriteInv, WriterInv, ReaderInv, WrittenOnceInOrder
<1> QED
  BY <1>1, WriteInvariant, PTL

\* A block acknowledged to a writing client has been written.
THEOREM AckImpliesStored ==
  ASSUME FileLen < BlkMod
  PROVE  Spec => []AckedIsStored
<1>1. WriteInv => AckedIsStored
  BY DEF WriteInv, WriterInv, AckedIsStored
<1> QED
  BY <1>1, WriteInvariant, PTL

(***************************************************************************)
(* The server, its clients and the lossy network implement FileTransfer,   *)
(* in every instance in which the block number does not wrap.              *)
(***************************************************************************)
\* The invariants a step of the refinement rests on.
RefInv == TypeOK /\ ClientCoherent /\ SessionCoherent /\ WriteInv

\* The abstract variables, as the refinement mapping gives them.
Known == [c \in Clients |-> IF c \in Writers THEN count[c] ELSE 0]
AbsStep == Abstract!Next \/ UNCHANGED <<peer, stored, Known>>

\* A session that closes is released; one that stays leaves nothing changed.
LEMMA ReleaseStep ==
  ASSUME peer' \in {peer, NoPeer}, stored' = stored, UNCHANGED count
  PROVE  AbsStep
<1>1. Known' = Known
  BY DEF Known
<1>2. CASE peer' = peer
  BY <1>1, <1>2 DEF AbsStep
<1>3. CASE peer # NoPeer /\ peer' = NoPeer
  BY <1>1, <1>3 DEF AbsStep, Abstract!Next, Abstract!Release, Known
<1> QED
  BY <1>2, <1>3

\* A request is granted only when nobody owns the board.
LEMMA AcquireStep ==
  ASSUME NEW c \in Clients, peer = NoPeer, peer' \in {c, NoPeer}, stored' = stored,
         UNCHANGED count
  PROVE  AbsStep
<1>1. Known' = Known
  BY DEF Known
<1>2. CASE peer' = c
  BY <1>1, <1>2 DEF AbsStep, Abstract!Next, Abstract!Acquire, Known
<1> QED
  BY <1>2, ReleaseStep

\* send_data keeps the session of its reader or closes it.
LEMMA SendDataOwner ==
  ASSUME NEW c, NEW p, NEW b, NEW fn, NEW a, send_data(c, p, b, fn, a)
  PROVE  peer' \in {c, NoPeer}
BY DEF send_data, SendDataNoMem, SendDataReadError, SendDataOk, close_handle

\* A block that recv writes is the next one of its owner's file, and the last
\* one ends the transfer.
LEMMA StoreStep ==
  ASSUME FileLen < BlkMod, RefInv, NEW c \in Clients, RecvDataWrite(c),
         UNCHANGED count
  PROVE  AbsStep
<1> DEFINE k == Len(stored[c])
<1>1. /\ Accepted(c, {"DATA"}) /\ handle /\ mode_write /\ ~IsDuplicate(Head1(c).blk)
      /\ stored' = [stored EXCEPT ![peer] = Append(@, <<c, Head1(c).data>>)]
      /\ Head1(c).full => peer' = peer
      /\ ~Head1(c).full => peer' = NoPeer
  BY DEF RecvDataWrite, keep, close_handle
<1>2. /\ peer = c /\ Head1(c).data = k + 1 /\ k < FileLen
      /\ Head1(c).full <=> Head1(c).data < FileLen
  BY <1>1, WhichBlock DEF RefInv
<1>3. stored' = [stored EXCEPT ![c] = Append(@, <<c, Len(@) + 1>>)]
  BY <1>1, <1>2
<1>4. stored[c] \in Seq(Clients \X Block) /\ stored \in [Clients -> Seq(Clients \X Block)]
      /\ k \in Nat
  BY ClientTypes DEF RefInv, TypeOK, ServerTypeOK
<1>5. Len(stored'[c]) = k + 1
  BY <1>3, <1>4
<1>6. peer' \in {c, NoPeer} /\ (Len(stored'[c]) = FileLen => peer' = NoPeer)
  BY <1>1, <1>2, <1>4, <1>5, ServerAssumption
<1>7. Known' = Known
  BY DEF Known
<1>8. Abstract!Store(c)
  BY <1>2, <1>3, <1>6, <1>7 DEF Abstract!Store, Known
<1> QED
  BY <1>8 DEF AbsStep, Abstract!Next

\* Every packet the server handles is a step of the abstract transfer.
LEMMA RecvRefines ==
  ASSUME FileLen < BlkMod, RefInv, NEW c \in Clients, RecvStep(c)
  PROVE  AbsStep
<1>0. UNCHANGED count
  BY DEF RecvStep, clientVars
<1>1. CASE RecvForeign(c) \/ RecvRequestBusy(c) \/ RecvRequestRefused(c) \/ RecvRejected(c)
  BY <1>0, <1>1, ReleaseStep
  DEF RecvForeign, RecvRequestBusy, RecvRequestRefused, RecvRejected, serverVars
<1>2. CASE RecvWrq(c)
  <2>1. /\ toSrv[c] # <<>> /\ Head1(c).op = "WRQ" /\ ~handle /\ peer' = c
        /\ stored' = [stored EXCEPT ![c] = <<>>]
    BY <1>2 DEF RecvWrq, Accepted
  <2>2. peer = NoPeer
    BY <2>1 DEF RefInv, SessionCoherent
  <2>3. Head1(c).data = 0 /\ Len(stored[c]) <= 0
    BY <2>1, HeadFacts, PacketFields DEF RefInv
  <2>4. stored[c] = <<>>
    BY <2>3, ClientTypes DEF RefInv
  <2>5. stored' = stored
    BY <2>1, <2>4 DEF RefInv, TypeOK, ServerTypeOK
  <2> QED
    BY <1>0, <2>1, <2>2, <2>5, AcquireStep
<1>3. CASE RecvRrq(c)
  <2>1. ~handle /\ stored' = stored /\ send_data(c, 0, 1, "read", sys_timeout(armed))
    BY <1>3 DEF RecvRrq
  <2>2. peer = NoPeer
    BY <2>1 DEF RefInv, SessionCoherent
  <2>3. peer' \in {c, NoPeer}
    BY <2>1, SendDataOwner
  <2> QED
    BY <1>0, <2>1, <2>2, <2>3, AcquireStep
<1>4. CASE RecvDataDuplicate(c)
  BY <1>0, <1>4, ReleaseStep DEF RecvDataDuplicate, keep, close_handle
<1>5. CASE RecvDataWrite(c)
  BY <1>0, <1>5, StoreStep
<1>6. CASE RecvDataWriteError(c)
  BY <1>0, <1>6, ReleaseStep DEF RecvDataWriteError, close_handle
<1>7. CASE RecvAck(c)
  <2>1. /\ Accepted(c, {"ACK"}) /\ handle /\ stored' = stored
        /\ send_data(c, rdpos, blknum', ctxfn, armed)
    BY <1>7 DEF RecvAck, AcceptedAck
  <2>2. peer = c
    BY <2>1 DEF Accepted, Foreign, RefInv, SessionCoherent
  <2>3. peer' \in {c, NoPeer}
    BY <2>1, SendDataOwner
  <2> QED
    BY <1>0, <2>1, <2>2, <2>3, ReleaseStep
<1>8. CASE RecvLastAck(c)
  BY <1>0, <1>8, ReleaseStep DEF RecvLastAck, close_handle
<1> QED
  BY <1>1, <1>2, <1>3, <1>4, <1>5, <1>6, <1>7, <1>8 DEF RecvStep, recv

\* The acknowledgement a writer takes in is of a block already stored.
LEMMA LearnStep ==
  ASSUME FileLen < BlkMod, RefInv, NEW c \in Clients, GetAck(c)
  PROVE  AbsStep
<1>1. /\ ClientTake(c) /\ cstate[c] = "writing"
      /\ Reply(c) = Ack((count[c] + 1) % BlkMod)
      /\ count' = [count EXCEPT ![c] = @ + 1]
      /\ peer' = peer /\ stored' = stored
  BY DEF GetAck, serverVars
<1>2. c \in Writers /\ WriterInv(c)
  BY <1>1 DEF RefInv, WriteInv, ReaderInv
<1>3. toCli[c] \in Seq(Packet) /\ Len(stored[c]) \in Nat /\ count[c] \in Nat
  BY ClientTypes DEF RefInv
<1>4. count[c] < FileLen
  BY <1>1 DEF RefInv, ClientCoherent
<1>5. Reply(c).blk = count[c] + 1
  BY <1>1, <1>3, <1>4, NoWrap, ServerAssumption DEF Ack
<1>6. Reply(c).blk <= Len(stored[c])
  BY <1>1, <1>2, <1>3 DEF WriterInv, Answers, ClientTake, Reply
<1>7. count[c] < Len(stored[c])
  BY <1>3, <1>5, <1>6
<1>8. Known' = [Known EXCEPT ![c] = @ + 1] /\ Known[c] = count[c]
  BY <1>1, <1>2 DEF Known, RefInv, TypeOK
<1>9. Abstract!Learn(c)
  BY <1>1, <1>7, <1>8 DEF Abstract!Learn, Known
<1> QED
  BY <1>9 DEF AbsStep, Abstract!Next

\* A client's step is nothing the board sees, or the client learning that a
\* block is stored.
LEMMA ClientRefines ==
  ASSUME FileLen < BlkMod, RefInv, NEW c \in Clients, ClientStep(c) \/ Lose(c)
  PROVE  AbsStep
<1>1. CASE GetAck(c)
  BY <1>1, LearnStep
<1>2. CASE GetData(c)
  <2>1. cstate[c] \in {"rrq", "reading"} /\ peer' = peer /\ stored' = stored
        /\ count' = [count EXCEPT ![c] = @ + 1]
    BY <1>2 DEF GetData, serverVars
  <2>2. c \notin Writers
    BY <2>1 DEF RefInv, WriteInv, WriterInv
  <2>3. Known' = Known
    BY <2>1, <2>2 DEF Known, RefInv, TypeOK
  <2> QED
    BY <2>1, <2>3 DEF AbsStep
<1>3. CASE ~GetAck(c) /\ ~GetData(c)
  <2>1. peer' = peer /\ stored' = stored /\ count' = count
    BY <1>3 DEF ClientStep, Lose, Start, GetAck0, GetDataAgain, GetError, Resend, Quit,
                serverVars, clientVars
  <2> QED
    BY <2>1, ReleaseStep
<1> QED
  BY <1>1, <1>2, <1>3

LEMMA NextRefines ==
  ASSUME FileLen < BlkMod, RefInv, [Next]_vars
  PROVE  AbsStep
<1>1. CASE TmrStep
  BY <1>1, ReleaseStep
  DEF TmrStep, tftp_tmr, TmrNoSession, TmrWait, TmrResend, TmrClose, keep, close_handle,
      clientVars
<1>2. CASE InitStep \/ UNCHANGED vars
  BY <1>2, ReleaseStep DEF InitStep, casper_tftp_init, vars, serverVars, clientVars
<1>3. ASSUME NEW c \in Clients, ClientStep(c) \/ RecvStep(c) \/ Lose(c)
      PROVE  AbsStep
  BY <1>3, RecvRefines, ClientRefines
<1> QED
  BY <1>1, <1>2, <1>3 DEF Next

\* The server implements the abstract transfer: for any number of writers and
\* readers, whatever recv, tftp_tmr and casper_tftp_init interleave and the
\* network loses, one transfer at a time owns the board, only its owner's file
\* grows, in order, and a block is known to be stored only after it is.
THEOREM Refinement ==
  ASSUME FileLen < BlkMod
  PROVE  Spec => ImplementsFileTransfer
<1>1. Init => Abstract!Init
  BY DEF Init, ServerInit, Abstract!Init
<1>2. RefInv /\ [Next]_vars => [Abstract!Next]_(Abstract!vars)
  BY NextRefines DEF AbsStep, Abstract!vars, Known
<1>3. Spec => []RefInv
  BY TypeCorrect, SessionCoherence, WriteInvariant, PTL DEF RefInv
<1> QED
  BY <1>1, <1>2, <1>3, PTL DEF Spec, ImplementsFileTransfer, Abstract!Spec

-----------------------------------------------------------------------------
(***************************************************************************)
(* Reads: the inductive invariant of a reader.                             *)
(***************************************************************************)

\* A block travels under its own number.
Numbered(q) == \A p \in 1..Len(q) : q[p].op = "DATA" => q[p].blk = q[p].data

\* An open read session holds the block it expects the acknowledgement of, or,
\* after a failed allocation, is one number ahead of the read function.
ReadSession ==
  handle /\ ~mode_write =>
    \/ blknum = rdpos /\ rdpos \in Block /\ last_data = BlockPkt(rdpos)
    \/ NoMemory /\ blknum = rdpos + 1 /\ rdpos < FileLen /\ last_data = NoData

\* A reader has accepted as many blocks as it counts, the right ones.
GotInv(c) ==
  /\ c \in Writers => got[c] = <<>>
  /\ c \notin Writers => Len(got[c]) = count[c] /\ InOrder(got[c]) /\ Numbered(toCli[c])

\* Nothing of a session of client c exists yet.
Fresh(c) ==
  /\ peer # c /\ count[c] = 0
  /\ \A p \in 1..Len(toSrv[c]) : toSrv[c][p].op # "ACK"
  /\ \A p \in 1..Len(toCli[c]) : toCli[c][p].op # "DATA"

\* A reader that sends its request once has one session, in which it
\* acknowledges only what it has got and gets only what was read.
OneSession(c) ==
  /\ \A p \in 1..Len(toSrv[c]) :
       /\ toSrv[c][p].op = "ACK" => toSrv[c][p].blk <= count[c]
       /\ toSrv[c][p].op = "RRQ" => p = 1 /\ Fresh(c)
  /\ cstate[c] = "idle" => toSrv[c] = <<>> /\ Fresh(c)
  /\ cstate[c] = "reading" => count[c] > 0
  /\ peer = c => /\ count[c] <= rdpos
                 /\ \A p \in 1..Len(toCli[c]) :
                      toCli[c][p].op = "DATA" => toCli[c][p].data <= rdpos

ReadersInv ==
  /\ \A c \in Clients : GotInv(c)
  /\ ~ResendRequest => \A c \in Clients \ Writers : OneSession(c)

ReadInv == ReadSession /\ ReadersInv

(***************************************************************************)
(* Channels of a reader.                                                   *)
(***************************************************************************)
LEMMA NumberedTail ==
  ASSUME NEW q \in Seq(Packet), q # <<>>, Numbered(q)
  PROVE  Numbered(Tail(q))
BY TailElems DEF Numbered

LEMMA NumberedPut ==
  ASSUME NEW q \in Seq(Packet), Numbered(q), NEW m \in Packet,
         m.op = "DATA" => m.blk = m.data
  PROVE  Numbered(Put(q, m))
BY PutElems DEF Numbered

\* The session of another client is not disturbed.
LEMMA OneFrame ==
  ASSUME NEW d, OneSession(d), toSrv'[d] = toSrv[d], toCli'[d] = toCli[d],
         cstate'[d] = cstate[d], count'[d] = count[d],
         peer' = d => peer = d /\ rdpos' = rdpos
  PROVE  OneSession(d)'
BY DEF OneSession, Fresh

\* What the server may do to the channels of the client whose packet it takes:
\* answer, with a block under its own number and no further than it has read.
LEMMA ServerClients ==
  ASSUME TypeOK, ReadInv, NEW c \in Clients, toSrv[c] # <<>>, Consume(c),
         UNCHANGED clientVars,
         \/ UNCHANGED toCli
         \/ \E m \in Packet : /\ send(c, m)
                              /\ m.op = "DATA" => m.blk = m.data /\ m.data <= rdpos',
         \/ peer' = peer /\ rdpos' = rdpos
         \/ peer' = NoPeer
         \/ peer' = c /\ c \in Writers
         \/ /\ peer' = c
            /\ ~ResendRequest => /\ count[c] <= rdpos'
                                 /\ \A p \in 1..Len(toCli[c]) :
                                      toCli[c][p].op = "DATA" => toCli[c][p].data <= rdpos'
  PROVE  ReadersInv'
<1>1. \A d \in Clients \ {c} : /\ toSrv'[d] = toSrv[d] /\ toCli'[d] = toCli[d]
  BY DEF Consume, send, TypeOK, ServerTypeOK
<1>2. /\ toSrv'[c] = Tail(toSrv[c]) /\ toSrv[c] \in Seq(Packet) /\ toCli[c] \in Seq(Packet)
      /\ cstate' = cstate /\ count' = count /\ got' = got
  BY ClientTypes DEF Consume, clientVars, TypeOK, ServerTypeOK
<1>3. \/ toCli'[c] = toCli[c]
      \/ \E m \in Packet : /\ toCli'[c] = Put(toCli[c], m)
                           /\ m.op = "DATA" => m.blk = m.data /\ m.data <= rdpos'
  BY DEF send, TypeOK, ServerTypeOK
<1>4. ASSUME NEW d \in Clients PROVE GotInv(d)'
  <2>1. CASE d # c
    BY <1>1, <1>2, <2>1 DEF ReadInv, ReadersInv, GotInv, InOrder, Numbered
  <2>2. CASE d = c
    <3>1. c \notin Writers => Numbered(toCli'[c])
      BY <1>2, <1>3, NumberedPut DEF ReadInv, ReadersInv, GotInv
    <3> QED
      BY <1>2, <2>2, <3>1 DEF ReadInv, ReadersInv, GotInv, InOrder, Numbered
  <2> QED
    BY <2>1, <2>2
<1>5. ASSUME ~ResendRequest, NEW d \in Clients \ Writers PROVE OneSession(d)'
  <2>1. CASE d # c
    <3>1. OneSession(d)
      BY <1>5 DEF ReadInv, ReadersInv
    <3>2. peer' = d => peer = d /\ rdpos' = rdpos
      BY <2>1, ServerAssumption
    <3> QED
      BY <1>1, <1>2, <2>1, <3>1, <3>2, OneFrame
  <2>2. CASE d = c
    <3>1. OneSession(c) /\ c \notin Writers
      BY <1>5, <2>2 DEF ReadInv, ReadersInv
    <3>2. /\ \A p \in 1..Len(Tail(toSrv[c])) :
               /\ Tail(toSrv[c])[p].op = "ACK" => Tail(toSrv[c])[p].blk <= count[c]
               /\ Tail(toSrv[c])[p].op # "RRQ"
          /\ cstate[c] # "idle"
      BY <1>2, <3>1, TailElems DEF OneSession
    <3>3. peer' = c => /\ count[c] <= rdpos'
                       /\ \A p \in 1..Len(toCli[c]) :
                            toCli[c][p].op = "DATA" => toCli[c][p].data <= rdpos'
      BY <1>5, <3>1, ServerAssumption DEF OneSession
    <3>4. peer' = c => \A p \in 1..Len(toCli'[c]) :
                         toCli'[c][p].op = "DATA" => toCli'[c][p].data <= rdpos'
      BY <1>2, <1>3, <3>3, PutElems
    <3> QED
      BY <1>2, <2>2, <3>1, <3>2, <3>3, <3>4 DEF OneSession
  <2> QED
    BY <2>1, <2>2
<1> QED
  BY <1>4, <1>5 DEF ReadersInv

\* A handler that answers with an error, or not at all, and keeps or closes the
\* session.
LEMMA ErrorClients ==
  ASSUME TypeOK, ReadInv, NEW c \in Clients, toSrv[c] # <<>>, Consume(c),
         UNCHANGED clientVars, UNCHANGED toCli \/ send_error(c),
         (peer' = peer /\ rdpos' = rdpos) \/ peer' = NoPeer
  PROVE  ReadersInv'
BY ErrorAnswer, ServerClients DEF send_error

(***************************************************************************)
(* send_data, for the first block or after an acknowledgement.             *)
(***************************************************************************)
LEMMA SendDataRead ==
  ASSUME FileLen < BlkMod, TypeOK, ReadInv, NEW c \in Clients, c \notin Writers,
         toSrv[c] # <<>>, Consume(c), UNCHANGED clientVars,
         NEW p \in 0..FileLen, NEW b, NEW fn, NEW a,
         p < FileLen, b = p + 1, blknum' = b, mode_write' = FALSE,
         send_data(c, p, b, fn, a),
         ~ResendRequest => /\ count[c] <= p
                           /\ \A r \in 1..Len(toCli[c]) :
                                toCli[c][r].op = "DATA" => toCli[c][r].data <= p
  PROVE  ReadInv'
<1>1. CASE SendDataNoMem(c, fn, a) /\ rdpos' = p
  <2>1. ReadSession'
    BY <1>1 DEF SendDataNoMem, ReadSession
  <2>2. peer' = c /\ toCli' = toCli
    BY <1>1 DEF SendDataNoMem
  <2> QED
    BY <1>1, <2>1, <2>2, ServerClients DEF ReadInv
<1>2. CASE SendDataReadError(c, a) /\ rdpos' = p
  <2>1. ~handle' /\ peer' = NoPeer /\ send_error(c)
    BY <1>2 DEF SendDataReadError, close_handle
  <2>a. ReadersInv'
    BY <2>1, ErrorClients
  <2>b. ReadSession'
    BY <2>1 DEF ReadInv, ReadSession
  <2> QED
    BY <2>a, <2>b DEF ReadInv
<1>3. CASE SendDataOk(c, p, b, fn, a) /\ rdpos' = p + 1
  <2> DEFINE d == [blk |-> b, data |-> p + 1, full |-> p + 1 < FileLen]
  <2>1. last_data' = d /\ send(c, Data(d)) /\ peer' = c
    BY <1>3 DEF SendDataOk
  <2>2. p + 1 \in Block /\ p + 1 \in BlkNum /\ p + 1 < BlkMod
    BY ServerAssumption DEF Block, BlkNum
  <2>3. d = BlockPkt(p + 1)
    <3>1. (p + 1) % BlkMod = p + 1
      BY <2>2, NoWrap
    <3> QED
      BY <3>1 DEF BlockPkt
  <2>4. ReadSession'
    <3> HIDE DEF d
    <3> QED
      BY <1>3, <2>1, <2>2, <2>3 DEF ReadSession
  <2>5. Data(d) \in Packet /\ Data(d).blk = p + 1 /\ Data(d).data = p + 1
    <3>1. d \in DataPkt
      BY <2>2 DEF DataPkt
    <3>2. d.blk = p + 1 /\ d.data = p + 1
      OBVIOUS
    <3> HIDE DEF d
    <3> QED
      BY <3>1, <3>2, PacketTypes DEF Data
  <2>6. ~ResendRequest => /\ count[c] <= rdpos'
                          /\ \A r \in 1..Len(toCli[c]) :
                               toCli[c][r].op = "DATA" => toCli[c][r].data <= rdpos'
    <3>1. count[c] \in Nat /\ \A r \in 1..Len(toCli[c]) :
            toCli[c][r].op = "DATA" => toCli[c][r].data \in Nat
      BY ClientTypes, PacketFields, ServerAssumption DEF Block
    <3> QED
      BY <1>3, <3>1
  <2>7. \E m \in Packet : /\ send(c, m)
                          /\ m.op = "DATA" => m.blk = m.data /\ m.data <= rdpos'
    <3>1. Data(d).data <= rdpos'
      BY <1>3, <2>5
    <3> HIDE DEF d
    <3> QED
      BY <2>1, <2>5, <3>1
  <2> QED
    BY <2>1, <2>4, <2>6, <2>7, ServerClients DEF ReadInv
<1> QED
  BY <1>1, <1>2, <1>3 DEF send_data

\* Every packet the server handles preserves the invariant.
LEMMA RecvReadInv ==
  ASSUME FileLen < BlkMod, ~NoMemory \/ ~ResendRequest,
         TypeOK, SessionCoherent, WriteInv, ReadInv, NEW c \in Clients, RecvStep(c)
  PROVE  ReadInv'
<1>0. UNCHANGED clientVars
  BY DEF RecvStep
<1>1. CASE RecvForeign(c) \/ RecvRequestBusy(c) \/ RecvRejected(c)
  <2>1. /\ toSrv[c] # <<>> /\ Consume(c) /\ send_error(c)
        /\ UNCHANGED <<handle, peer, mode_write, blknum, last_data, rdpos>>
    BY <1>1 DEF RecvForeign, RecvRequestBusy, RecvRejected, Accepted, serverVars
  <2>a. ReadersInv'
    BY <1>0, <2>1, ErrorClients
  <2>b. ReadSession'
    BY <1>0, <2>1 DEF ReadInv, ReadSession
  <2> QED
    BY <2>a, <2>b DEF ReadInv
<1>2. CASE RecvRequestRefused(c)
  <2>1. /\ toSrv[c] # <<>> /\ Consume(c) /\ send_error(c) /\ ~handle'
        /\ UNCHANGED <<peer, rdpos>>
    BY <1>2 DEF RecvRequestRefused, Accepted
  <2>a. ReadersInv'
    BY <1>0, <2>1, ErrorClients
  <2>b. ReadSession'
    BY <1>0, <2>1 DEF ReadInv, ReadSession
  <2> QED
    BY <2>a, <2>b DEF ReadInv
<1>3. CASE RecvWrq(c)
  <2>1. /\ toSrv[c] # <<>> /\ Consume(c) /\ send_ack(c, 0) /\ mode_write' /\ peer' = c
        /\ Head1(c).op = "WRQ"
    BY <1>3 DEF RecvWrq, Accepted
  <2>2. c \in Writers /\ 0 \in BlkNum
    BY <2>1, HeadFacts, ServerAssumption DEF BlkNum
  <2>a. ReadersInv'
    <3>1. Ack(0) \in Packet /\ Ack(0).op # "DATA" /\ send(c, Ack(0))
      BY <2>1, <2>2, AckAnswer DEF send_ack
    <3> QED
      BY <1>0, <2>1, <2>2, <3>1, ServerClients
  <2>b. ReadSession'
    BY <1>0, <2>1, <2>2 DEF ReadInv, ReadSession
  <2> QED
    BY <2>a, <2>b DEF ReadInv
<1>4. CASE RecvRrq(c)
  <2>1. /\ toSrv[c] # <<>> /\ Consume(c) /\ Head1(c).op = "RRQ" /\ mode_write' = FALSE
        /\ blknum' = 1 /\ send_data(c, 0, 1, "read", sys_timeout(armed))
    BY <1>4 DEF RecvRrq, Accepted
  <2>2. c \notin Writers
    BY <2>1, HeadFacts
  <2>3. ~ResendRequest => Fresh(c)
    <3>1. toSrv[c] \in Seq(Packet)
      BY ClientTypes
    <3>2. Head1(c) = toSrv[c][1] /\ 1 \in 1..Len(toSrv[c])
      BY <2>1, <3>1, TailElems DEF Head1
    <3> QED
      BY <2>1, <2>2, <3>2 DEF ReadInv, ReadersInv, OneSession
  <2>4. 0 \in 0..FileLen /\ 0 < FileLen /\ 1 = 0 + 1
    BY ServerAssumption
  <2>5. ~ResendRequest => /\ count[c] <= 0
                          /\ \A r \in 1..Len(toCli[c]) :
                               toCli[c][r].op = "DATA" => toCli[c][r].data <= 0
    BY <2>3 DEF Fresh
  <2> QED
    BY <1>0, <2>1, <2>2, <2>4, <2>5, SendDataRead
<1>5. CASE RecvDataDuplicate(c) \/ RecvDataWrite(c) \/ RecvDataWriteError(c)
  <2>1. /\ toSrv[c] # <<>> /\ Consume(c) /\ Head1(c).op = "DATA" /\ mode_write' /\ handle
        /\ send_ack(c, Head1(c).blk) \/ send_error(c)
        /\ peer' = peer \/ peer' = NoPeer
        /\ rdpos' = rdpos
    BY <1>5 DEF RecvDataDuplicate, RecvDataWrite, RecvDataWriteError, Accepted, keep, close_handle
  <2>2. Head1(c).blk \in BlkNum
    BY <2>1, HeadFacts, PacketFields
  <2>a. ReadersInv'
    <3>1. CASE send_error(c)
      BY <1>0, <2>1, <3>1, ErrorClients
    <3>2. CASE send_ack(c, Head1(c).blk)
      <4>1. Ack(Head1(c).blk) \in Packet /\ Ack(Head1(c).blk).op # "DATA"
        BY <2>2, AckAnswer
      <4>2. send(c, Ack(Head1(c).blk))
        BY <3>2 DEF send_ack
      <4> QED
        BY <1>0, <2>1, <4>1, <4>2, ServerClients
    <3> QED
      BY <2>1, <3>1, <3>2
  <2>b. ReadSession'
    BY <1>0, <2>1, <2>2 DEF ReadInv, ReadSession
  <2> QED
    BY <2>a, <2>b DEF ReadInv
<1>6. CASE RecvAck(c)
  <2>1. /\ toSrv[c] # <<>> /\ Consume(c) /\ Head1(c).op = "ACK" /\ mode_write' = FALSE
        /\ ~mode_write /\ handle /\ Head1(c).blk = blknum /\ ~IsLast(last_data) /\ ~Foreign(c)
        /\ blknum' = (blknum + 1) % BlkMod /\ send_data(c, rdpos, blknum', ctxfn, armed)
    BY <1>6 DEF RecvAck, AcceptedAck, Accepted, TypeOK, ServerTypeOK
  <2>2. c \notin Writers /\ peer = c
    BY <2>1, HeadFacts DEF SessionCoherent, Foreign
  <2>3. blknum = rdpos /\ rdpos \in Block /\ last_data = BlockPkt(rdpos)
    <3>1. CASE ~NoMemory
      BY <2>1, <3>1 DEF ReadInv, ReadSession
    <3>2. CASE ~ResendRequest
      <4>1. OneSession(c) /\ toSrv[c] \in Seq(Packet)
        BY <2>2, <3>2, ClientTypes DEF ReadInv, ReadersInv
      <4>2. Head1(c) = toSrv[c][1] /\ 1 \in 1..Len(toSrv[c])
        BY <2>1, <4>1, TailElems DEF Head1
      <4>3. blknum <= count[c] /\ count[c] <= rdpos
        BY <2>1, <2>2, <4>1, <4>2 DEF OneSession
      <4>4. count[c] \in Nat /\ rdpos \in Nat
        BY ClientTypes, ServerAssumption DEF TypeOK, ServerTypeOK
      <4>5. blknum # rdpos + 1
        BY <4>3, <4>4 DEF TypeOK, ServerTypeOK, BlkNum
      <4> QED
        BY <2>1, <4>5 DEF ReadInv, ReadSession
    <3> QED
      BY <3>1, <3>2
  <2>4. rdpos < FileLen
    <3>1. last_data # NoData
      BY <2>3, PacketTypes, ServerAssumption DEF DataPkt, BlkNum, Block
    <3> QED
      BY <2>1, <2>3, <3>1 DEF IsLast, BlockPkt
  <2>5. blknum' = rdpos + 1 /\ rdpos \in 0..FileLen
    <3>1. rdpos + 1 \in Nat /\ rdpos + 1 < BlkMod
      BY <2>3, <2>4, ServerAssumption DEF Block
    <3> QED
      BY <2>1, <2>3, <3>1, NoWrap, ServerAssumption DEF Block
  <2>6. ~ResendRequest => /\ count[c] <= rdpos
                          /\ \A r \in 1..Len(toCli[c]) :
                               toCli[c][r].op = "DATA" => toCli[c][r].data <= rdpos
    BY <2>2 DEF ReadInv, ReadersInv, OneSession
  <2> QED
    BY <1>0, <2>1, <2>2, <2>4, <2>5, <2>6, SendDataRead
<1>7. CASE RecvLastAck(c)
  <2>1. /\ toSrv[c] # <<>> /\ Consume(c) /\ ~handle' /\ peer' = NoPeer /\ UNCHANGED toCli
    BY <1>7 DEF RecvLastAck, AcceptedAck, Accepted, close_handle
  <2>a. ReadersInv'
    BY <1>0, <2>1, ErrorClients
  <2>b. ReadSession'
    BY <1>0, <2>1 DEF ReadInv, ReadSession
  <2> QED
    BY <2>a, <2>b DEF ReadInv
<1> QED
  BY <1>1, <1>2, <1>3, <1>4, <1>5, <1>6, <1>7 DEF RecvStep, recv

\* The timer resends the block the session holds, or closes the session.
LEMMA TmrReadInv ==
  ASSUME FileLen < BlkMod, TypeOK, SessionCoherent, WriteInv, ReadInv, TmrStep
  PROVE  ReadInv'
<1>0. cstate' = cstate /\ count' = count /\ got' = got /\ toSrv' = toSrv /\ rdpos' = rdpos
      /\ mode_write' = mode_write /\ blknum' = blknum
  BY DEF TmrStep, tftp_tmr, TmrNoSession, TmrWait, TmrResend, TmrClose, clientVars
<1>1. CASE TmrNoSession \/ TmrWait \/ TmrClose
  <2>1. /\ toCli' = toCli /\ peer' \in {peer, NoPeer}
        /\ ~handle' \/ (handle' = handle /\ last_data' = last_data)
    BY <1>1 DEF TmrNoSession, TmrWait, TmrClose, close_handle
  <2>2. ReadSession'
    BY <1>0, <2>1 DEF ReadInv, ReadSession
  <2>3. \A d \in Clients : GotInv(d)'
    BY <1>0, <2>1 DEF ReadInv, ReadersInv, GotInv, InOrder, Numbered
  <2>4. ASSUME ~ResendRequest, NEW d \in Clients \ Writers PROVE OneSession(d)'
    <3>1. OneSession(d) /\ (peer' = d => peer = d)
      BY <2>1, <2>4, ServerAssumption DEF ReadInv, ReadersInv
    <3> QED
      BY <1>0, <2>1, <3>1, OneFrame
  <2> QED
    BY <2>2, <2>3, <2>4 DEF ReadInv, ReadersInv
<1>2. CASE TmrResend
  <2>1. /\ handle /\ last_data # NoData /\ send(peer, Data(last_data))
        /\ handle' = handle /\ peer' = peer /\ last_data' = last_data
    BY <1>2 DEF TmrResend, TmrFires, resend_data, keep
  <2>2. peer \in Clients \ Writers /\ ~mode_write
    BY <2>1 DEF WriteInv, SessionInv
  <2>3. rdpos \in Block /\ last_data = BlockPkt(rdpos)
    BY <2>1, <2>2 DEF ReadInv, ReadSession
  <2> DEFINE m == Data(BlockPkt(rdpos))
  <2>4. m \in Packet /\ m.data = rdpos /\ m.blk = rdpos
    BY <2>3, PacketTypes, BlockNumber DEF Data, BlockPkt
  <2>5. /\ toCli'[peer] = Put(toCli[peer], m)
        /\ \A d \in Clients \ {peer} : toCli'[d] = toCli[d]
    BY <2>1, <2>2, <2>3 DEF send, TypeOK, ServerTypeOK
  <2> HIDE DEF m
  <2>6. ReadSession'
    BY <1>0, <2>1 DEF ReadInv, ReadSession
  <2>7. ASSUME NEW d \in Clients PROVE GotInv(d)'
    <3>1. CASE d # peer
      BY <1>0, <2>5, <3>1 DEF ReadInv, ReadersInv, GotInv, InOrder, Numbered
    <3>2. CASE d = peer
      <4>1. Numbered(toCli'[peer])
        BY <2>2, <2>4, <2>5, NumberedPut, ClientTypes DEF ReadInv, ReadersInv, GotInv
      <4> QED
        BY <1>0, <2>2, <3>2, <4>1 DEF ReadInv, ReadersInv, GotInv, InOrder, Numbered
    <3> QED
      BY <3>1, <3>2
  <2>8. ASSUME ~ResendRequest, NEW d \in Clients \ Writers PROVE OneSession(d)'
    <3>1. OneSession(d)
      BY <2>8 DEF ReadInv, ReadersInv
    <3>2. CASE d # peer
      BY <1>0, <2>1, <2>5, <3>1, <3>2, OneFrame
    <3>3. CASE d = peer
      <4>1. /\ count[d] <= rdpos
            /\ \A p \in 1..Len(toCli[d]) : toCli[d][p].op = "DATA" => toCli[d][p].data <= rdpos
        BY <3>1, <3>3 DEF OneSession
      <4>2. toCli[d] \in Seq(Packet) /\ rdpos <= rdpos
        BY ClientTypes, ServerAssumption DEF TypeOK, ServerTypeOK
      <4>3. \A p \in 1..Len(toCli'[d]) : toCli'[d][p].op = "DATA" => toCli'[d][p].data <= rdpos
        BY <2>4, <2>5, <3>3, <4>1, <4>2, PutElems
      <4> QED
        BY <1>0, <2>1, <3>1, <3>3, <4>1, <4>3 DEF OneSession, Fresh
    <3> QED
      BY <3>2, <3>3
  <2> QED
    BY <2>6, <2>7, <2>8 DEF ReadInv, ReadersInv
<1> QED
  BY <1>1, <1>2 DEF TmrStep, tftp_tmr

(***************************************************************************)
(* The clients' steps.                                                     *)
(***************************************************************************)

\* A step of client c is nobody else's business.
LEMMA ReadClientFrame ==
  ASSUME ReadInv, NEW c \in Clients, UNCHANGED serverVars,
         \A d \in Clients \ {c} : /\ toSrv'[d] = toSrv[d] /\ toCli'[d] = toCli[d]
                                  /\ cstate'[d] = cstate[d] /\ count'[d] = count[d]
                                  /\ got'[d] = got[d],
         GotInv(c)', ~ResendRequest /\ c \notin Writers => OneSession(c)'
  PROVE  ReadInv'
<1>1. ReadSession'
  BY DEF ReadInv, ReadSession, serverVars
<1>2. \A d \in Clients \ {c} : GotInv(d)'
  BY DEF ReadInv, ReadersInv, GotInv, InOrder, Numbered
<1>3. ASSUME ~ResendRequest, NEW d \in Clients \ Writers, d # c PROVE OneSession(d)'
  BY <1>3, OneFrame DEF ReadInv, ReadersInv, serverVars
<1> QED
  BY <1>1, <1>2, <1>3 DEF ReadInv, ReadersInv

\* The next block a reader accepts is the one after those it has.
LEMMA GotNext ==
  ASSUME FileLen < BlkMod, TypeOK, ReadInv, NEW c \in Clients, c \notin Writers, GetData(c)
  PROVE  /\ Reply(c) \in Packet /\ Reply(c).data = count[c] + 1 /\ Reply(c).blk = count[c] + 1
         /\ got'[c] = Append(got[c], count[c] + 1) /\ count'[c] = count[c] + 1
         /\ got[c] \in Seq(Block) /\ count[c] \in Nat /\ count[c] + 1 \in Block
<1>1. /\ ClientTake(c) /\ Reply(c).op = "DATA" /\ Reply(c).blk = (count[c] + 1) % BlkMod
      /\ count[c] < FileLen /\ got'[c] = Append(got[c], Reply(c).data) /\ count'[c] = count[c] + 1
  BY DEF GetData, TypeOK
<1>2. toCli[c] \in Seq(Packet) /\ count[c] \in Nat /\ got[c] \in Seq(Block)
  BY ClientTypes DEF TypeOK
<1>3. Reply(c) \in Packet /\ Reply(c) = toCli[c][1] /\ 1 \in 1..Len(toCli[c])
  BY <1>1, <1>2, TailElems DEF ClientTake, Reply
<1>4. Reply(c).blk = Reply(c).data
  BY <1>1, <1>3 DEF ReadInv, ReadersInv, GotInv, Numbered
<1>5. count[c] + 1 \in Nat /\ count[c] + 1 < BlkMod /\ count[c] + 1 \in Block
  BY <1>1, <1>2, ServerAssumption DEF Block
<1>6. Reply(c).blk = count[c] + 1
  BY <1>1, <1>5, NoWrap
<1> QED
  BY <1>1, <1>2, <1>3, <1>4, <1>5, <1>6

\* What a reader may do in its session: take or lose packets, and send
\* anything but a request, acknowledgements only of what it has.
LEMMA ReaderMoves ==
  ASSUME TypeOK, NEW c \in Clients, OneSession(c), peer' = peer, rdpos' = rdpos,
         cstate'[c] = "idle" => cstate[c] = "idle" /\ toSrv'[c] = toSrv[c],
         cstate'[c] = "reading" => count'[c] > 0,
         count'[c] \in Nat, count[c] <= count'[c], Fresh(c) => count'[c] = 0,
         peer = c => count'[c] <= rdpos,
         toCli'[c] = toCli[c] \/ (toCli[c] # <<>> /\ toCli'[c] = Tail(toCli[c])),
         \/ toSrv'[c] = toSrv[c]
         \/ toSrv[c] # <<>> /\ toSrv'[c] = Tail(toSrv[c])
         \/ \E m \in Packet : /\ toSrv'[c] = Put(toSrv[c], m) /\ m.op # "RRQ"
                              /\ m.op = "ACK" => m.blk <= count'[c] /\ ~Fresh(c)
  PROVE  OneSession(c)'
<1>1. toSrv[c] \in Seq(Packet) /\ toCli[c] \in Seq(Packet) /\ count[c] \in Nat
  BY ClientTypes
<1>2. \A p \in 1..Len(toCli'[c]) : \E r \in 1..Len(toCli[c]) : toCli'[c][p] = toCli[c][r]
  <2>1. CASE toCli[c] # <<>> /\ toCli'[c] = Tail(toCli[c])
    <3>1. \A p \in 1..Len(toCli'[c]) : /\ p + 1 \in 1..Len(toCli[c])
                                      /\ toCli'[c][p] = toCli[c][p + 1]
      BY <1>1, <2>1, TailElems
    <3> QED
      BY <3>1
  <2> QED
    BY <2>1
<1>3. ASSUME NEW p \in 1..Len(toSrv'[c])
      PROVE  \/ \E r \in 1..Len(toSrv[c]) : r >= p /\ toSrv'[c][p] = toSrv[c][r]
             \/ /\ toSrv'[c][p].op # "RRQ"
                /\ toSrv'[c][p].op = "ACK" => toSrv'[c][p].blk <= count'[c] /\ ~Fresh(c)
  <2>1. CASE toSrv[c] # <<>> /\ toSrv'[c] = Tail(toSrv[c])
    <3>1. /\ p + 1 \in 1..Len(toSrv[c]) /\ p + 1 >= p
          /\ toSrv'[c][p] = toSrv[c][p + 1]
      BY <1>1, <1>3, <2>1, TailElems
    <3> QED
      BY <3>1
  <2>2. CASE \E m \in Packet : /\ toSrv'[c] = Put(toSrv[c], m) /\ m.op # "RRQ"
                               /\ m.op = "ACK" => m.blk <= count'[c] /\ ~Fresh(c)
    <3>1. PICK m \in Packet : /\ toSrv'[c] = Put(toSrv[c], m) /\ m.op # "RRQ"
                              /\ m.op = "ACK" => m.blk <= count'[c] /\ ~Fresh(c)
      BY <2>2
    <3>2. /\ Len(toSrv[c]) \in Nat
          /\ toSrv'[c][p] = IF p <= Len(toSrv[c]) THEN toSrv[c][p] ELSE m
      BY <1>1, <1>3, <3>1, PutElems
    <3> QED
      BY <1>3, <3>1, <3>2
  <2>3. CASE toSrv'[c] = toSrv[c]
    BY <1>3, <2>3
  <2> QED
    BY <2>1, <2>2, <2>3
<1>4. \A r \in 1..Len(toSrv[c]) : toSrv[c][r].blk \in Nat
  BY <1>1, PacketFields, ServerAssumption DEF BlkNum
<1>5. Fresh(c) => Fresh(c)'
  <2> SUFFICES ASSUME Fresh(c) PROVE Fresh(c)'
    OBVIOUS
  <2>1. \A p \in 1..Len(toSrv'[c]) : toSrv'[c][p].op # "ACK"
    BY <1>3 DEF Fresh
  <2>2. \A p \in 1..Len(toCli'[c]) : toCli'[c][p].op # "DATA"
    BY <1>2 DEF Fresh
  <2> QED
    BY <2>1, <2>2 DEF Fresh
<1>6. ASSUME NEW p \in 1..Len(toSrv'[c])
      PROVE  /\ toSrv'[c][p].op = "ACK" => toSrv'[c][p].blk <= count'[c]
             /\ toSrv'[c][p].op = "RRQ" => p = 1 /\ Fresh(c)'
  <2>1. CASE \E r \in 1..Len(toSrv[c]) : r >= p /\ toSrv'[c][p] = toSrv[c][r]
    <3>1. PICK r \in 1..Len(toSrv[c]) : r >= p /\ toSrv'[c][p] = toSrv[c][r]
      BY <2>1
    <3>2. toSrv[c][r].op = "ACK" => toSrv[c][r].blk <= count[c]
      BY DEF OneSession
    <3>3. toSrv[c][r].op = "RRQ" => r = 1 /\ Fresh(c)
      BY DEF OneSession
    <3> QED
      BY <1>1, <1>4, <1>5, <3>1, <3>2, <3>3
  <2> QED
    BY <1>3, <2>1
<1>7. cstate'[c] = "idle" => toSrv'[c] = <<>> /\ Fresh(c)'
  BY <1>5 DEF OneSession
<1>8. peer = c => \A p \in 1..Len(toCli'[c]) :
                    toCli'[c][p].op = "DATA" => toCli'[c][p].data <= rdpos
  BY <1>2 DEF OneSession
<1> QED
  BY <1>6, <1>7, <1>8 DEF OneSession

LEMMA ClientReadInv ==
  ASSUME FileLen < BlkMod, TypeOK, WriteInv, ReadInv, NEW c \in Clients,
         ClientStep(c) \/ Lose(c)
  PROVE  ReadInv'
<1> USE DEF ClientStep, Start, GetAck0, GetAck, GetData, GetDataAgain, GetError,
            Resend, Quit, Lose
<1>1. UNCHANGED serverVars
  OBVIOUS
<1>2. \A d \in Clients \ {c} : /\ toSrv'[d] = toSrv[d] /\ toCli'[d] = toCli[d]
                               /\ cstate'[d] = cstate[d] /\ count'[d] = count[d]
                               /\ got'[d] = got[d]
  BY DEF clientVars, ClientSend, ClientTake, Consume, TypeOK, ServerTypeOK
<1>3. GetData(c) \/ got' = got
  BY DEF clientVars
<1>4. GetAck(c) \/ GetData(c) \/ count' = count
  BY DEF clientVars
<1>5. \/ toCli'[c] = toCli[c]
      \/ toCli[c] # <<>> /\ toCli'[c] = Tail(toCli[c])
  BY DEF ClientTake, Consume, TypeOK, ServerTypeOK
<1> HIDE DEF ClientStep, Start, GetAck0, GetAck, GetData, GetDataAgain, GetError,
            Resend, Quit, Lose
<1>6. toSrv[c] \in Seq(Packet) /\ toCli[c] \in Seq(Packet) /\ count[c] \in Nat
  BY ClientTypes
<1>7. CASE c \in Writers
  <2>1. WriterInv(c)
    BY <1>7 DEF WriteInv
  <2>2. ~GetData(c)
    BY <2>1 DEF GetData, WriterInv
  <2>3. GotInv(c)'
    BY <1>3, <1>7, <2>2 DEF ReadInv, ReadersInv, GotInv
  <2> QED
    BY <1>1, <1>2, <1>7, <2>3, ReadClientFrame
<1>8. CASE c \notin Writers
  <2>1. ReaderInv(c) /\ GotInv(c)
    BY <1>8 DEF WriteInv, ReadInv, ReadersInv
  <2>2. ~GetAck0(c) /\ ~GetAck(c)
    BY <2>1 DEF GetAck0, GetAck, ReaderInv
  <2>3. Numbered(toCli'[c])
    BY <1>5, <1>6, <1>8, <2>1, NumberedTail DEF GotInv
  <2>4. GotInv(c)'
    <3>1. CASE GetData(c)
      <4>1. /\ got'[c] = Append(got[c], count[c] + 1) /\ count'[c] = count[c] + 1
            /\ got[c] \in Seq(Block) /\ count[c] + 1 \in Block
        BY <1>8, <3>1, GotNext
      <4>2. Len(got[c]) = count[c] /\ InOrder(got[c])
        BY <1>8, <2>1 DEF GotInv
      <4>3. Len(got'[c]) = count'[c] /\ InOrder(got'[c])
        BY <1>6, <4>1, <4>2 DEF InOrder
      <4> QED
        BY <1>8, <2>3, <4>3 DEF GotInv, InOrder, Numbered
    <3>2. CASE ~GetData(c)
      BY <1>3, <1>4, <1>8, <2>1, <2>2, <2>3, <3>2 DEF GotInv, InOrder, Numbered
    <3> QED
      BY <3>1, <3>2
  <2>5. ASSUME ~ResendRequest PROVE OneSession(c)'
    <3>0. /\ OneSession(c) /\ peer' = peer /\ rdpos' = rdpos
          /\ count[c] \in Nat /\ count[c] <= count[c]
          /\ Fresh(c) => count[c] = 0
          /\ peer = c => count[c] <= rdpos
          /\ cstate[c] = "reading" => count[c] > 0
      BY <1>1, <1>6, <1>8, <2>5 DEF ReadInv, ReadersInv, serverVars, OneSession, Fresh
    <3>1. \A m : ClientSend(c, m) => toSrv'[c] = Put(toSrv[c], m)
      BY DEF ClientSend, TypeOK, ServerTypeOK
    <3>2. CASE Start(c)
      <4>1. /\ cstate[c] = "idle" /\ ClientSend(c, Request("RRQ")) /\ cstate'[c] = "rrq"
            /\ toCli' = toCli /\ count' = count
        BY <1>8, <3>2 DEF Start, TypeOK
      <4>2. toSrv[c] = <<>> /\ Fresh(c)
        BY <3>0, <4>1 DEF OneSession
      <4>3. Request("RRQ") \in Packet /\ Request("RRQ").op = "RRQ"
        BY PacketTypes DEF Request
      <4>4. \A p \in 1..Len(toSrv'[c]) : p = 1 /\ toSrv'[c][p].op = "RRQ"
        <5>1. toSrv'[c] = Put(toSrv[c], Request("RRQ")) /\ Len(toSrv[c]) = 0
          BY <1>6, <3>1, <4>1, <4>2
        <5>2. /\ Len(toSrv'[c]) \in {0, 1}
              /\ \A p \in 1..Len(toSrv'[c]) :
                   toSrv'[c][p] = IF p <= 0 THEN toSrv[c][p] ELSE Request("RRQ")
          <6> DEFINE m == Request("RRQ")
          <6>1. m \in Packet /\ toSrv'[c] = Put(toSrv[c], m)
            BY <4>3, <5>1
          <6> HIDE DEF m
          <6>2. /\ Len(toSrv'[c]) \in {Len(toSrv[c]), Len(toSrv[c]) + 1}
                /\ \A p \in 1..Len(toSrv'[c]) :
                     toSrv'[c][p] = IF p <= Len(toSrv[c]) THEN toSrv[c][p] ELSE m
            BY <1>6, <6>1, PutElems
          <6> QED
            BY <5>1, <6>2 DEF m
        <5> QED
          BY <4>3, <5>2
      <4>5. Fresh(c)'
        BY <3>0, <4>1, <4>2, <4>4 DEF Fresh
      <4> QED
        BY <3>0, <4>1, <4>4, <4>5 DEF OneSession
    <3>3. CASE GetData(c)
      <4>1. /\ Reply(c) \in Packet /\ Reply(c).data = count[c] + 1 /\ Reply(c).blk = count[c] + 1
            /\ count'[c] = count[c] + 1
        BY <1>8, <3>3, GotNext
      <4>2. /\ Reply(c).op = "DATA" /\ ClientTake(c) /\ ClientSend(c, Ack(Reply(c).blk))
            /\ cstate'[c] \in {"reading", "done"}
        BY <3>3 DEF GetData, TypeOK
      <4>3. Reply(c) = toCli[c][1] /\ 1 \in 1..Len(toCli[c])
        BY <1>6, <4>2, TailElems DEF ClientTake, Reply
      <4>4. ~Fresh(c) /\ (peer = c => count[c] + 1 <= rdpos)
        BY <3>0, <4>1, <4>2, <4>3 DEF Fresh, OneSession
      <4>5. Ack(Reply(c).blk) \in Packet /\ Ack(Reply(c).blk).op = "ACK"
            /\ Ack(Reply(c).blk).blk = count'[c]
        BY <4>1, AckAnswer, PacketFields
      <4>6. count'[c] \in Nat /\ count[c] <= count'[c] /\ count'[c] > 0 /\ count'[c] <= count'[c]
        BY <1>6, <4>1
      <4>7. toSrv'[c] = Put(toSrv[c], Ack(Reply(c).blk))
        BY <3>1, <4>2
      <4> QED
        BY <1>5, <3>0, <4>1, <4>2, <4>4, <4>5, <4>6, <4>7, ReaderMoves
    <3>4. CASE GetDataAgain(c)
      <4>1. /\ Reply(c).op = "DATA" /\ ClientTake(c) /\ ClientSend(c, Ack(Reply(c).blk))
            /\ cstate' = cstate /\ count' = count /\ Reply(c).blk = count[c] % BlkMod
            /\ cstate[c] \in {"reading", "done"}
        BY <3>4 DEF GetDataAgain, clientVars
      <4>2. Reply(c) = toCli[c][1] /\ 1 \in 1..Len(toCli[c]) /\ Reply(c) \in Packet
        BY <1>6, <4>1, TailElems DEF ClientTake, Reply
      <4>3. ~Fresh(c)
        BY <4>1, <4>2 DEF Fresh
      <4>4. count[c] < BlkMod
        BY ServerAssumption DEF TypeOK
      <4>5. Reply(c).blk = count[c]
        BY <1>6, <4>1, <4>4, NoWrap
      <4>6. Ack(Reply(c).blk) \in Packet /\ Ack(Reply(c).blk).op = "ACK"
            /\ Ack(Reply(c).blk).blk = count[c]
        BY <4>2, <4>5, AckAnswer, PacketFields
      <4>7. toSrv'[c] = Put(toSrv[c], Ack(Reply(c).blk))
        BY <3>1, <4>1
      <4> QED
        BY <1>5, <3>0, <4>1, <4>3, <4>6, <4>7, ReaderMoves
    <3>5. CASE GetError(c)
      <4>1. cstate'[c] = "failed" /\ toSrv' = toSrv /\ count' = count
        BY <3>5 DEF GetError, TypeOK
      <4> QED
        BY <1>5, <3>0, <4>1, ReaderMoves
    <3>6. CASE Resend(c)
      <4>1. /\ cstate[c] = "reading" /\ ClientSend(c, Ack(count[c] % BlkMod))
            /\ cstate' = cstate /\ count' = count
        BY <2>1, <2>5, <3>6 DEF Resend, clientVars, ReaderInv
      <4>2. count[c] < BlkMod /\ count[c] \in BlkNum
        BY <1>6, ServerAssumption DEF TypeOK, BlkNum
      <4>3. toSrv'[c] = Put(toSrv[c], Ack(count[c]))
        BY <1>6, <3>1, <4>1, <4>2, NoWrap
      <4>4. Ack(count[c]) \in Packet /\ Ack(count[c]).op = "ACK" /\ Ack(count[c]).blk = count[c]
        BY <4>2, AckAnswer
      <4>5. ~Fresh(c)
        BY <1>6, <3>0, <4>1
      <4> QED
        BY <1>5, <3>0, <4>1, <4>3, <4>4, <4>5, ReaderMoves
    <3>7. CASE Quit(c)
      <4>1. cstate'[c] = "failed" /\ count' = count /\ (ClientSend(c, Error) \/ toSrv' = toSrv)
        BY <3>7 DEF Quit, TypeOK
      <4>2. Error \in Packet /\ Error.op = "ERROR"
        BY ErrorAnswer
      <4>3. toSrv'[c] = toSrv[c] \/ toSrv'[c] = Put(toSrv[c], Error)
        BY <3>1, <4>1
      <4> QED
        BY <1>5, <3>0, <4>1, <4>2, <4>3, ReaderMoves
    <3>8. CASE Lose(c)
      <4>1. cstate' = cstate /\ count' = count
        BY <3>8 DEF Lose, clientVars
      <4>2. toSrv'[c] = toSrv[c] \/ (toSrv[c] # <<>> /\ toSrv'[c] = Tail(toSrv[c]))
        BY <3>8 DEF Lose, Consume, TypeOK, ServerTypeOK
      <4>3. cstate[c] = "idle" => toSrv[c] = <<>>
        BY <3>0 DEF OneSession
      <4> QED
        BY <1>5, <3>0, <4>1, <4>2, <4>3, ReaderMoves
    <3> QED
      BY <2>2, <3>2, <3>3, <3>4, <3>5, <3>6, <3>7, <3>8 DEF ClientStep
  <2> QED
    BY <1>1, <1>2, <2>4, <2>5, ReadClientFrame
<1> QED
  BY <1>7, <1>8

LEMMA ReadInvStep ==
  ASSUME FileLen < BlkMod, ~NoMemory \/ ~ResendRequest,
         TypeOK, SessionCoherent, WriteInv, ReadInv, [Next]_vars
  PROVE  ReadInv'
<1>1. CASE InitStep \/ UNCHANGED vars
  <2>1. UNCHANGED <<handle, mode_write, blknum, rdpos, last_data, peer, toSrv, toCli,
                    cstate, count, got>>
    BY <1>1 DEF InitStep, casper_tftp_init, vars, serverVars, clientVars
  <2>2. ReadSession'
    BY <2>1 DEF ReadInv, ReadSession
  <2>3. ReadersInv'
    BY <2>1 DEF ReadInv, ReadersInv, GotInv, InOrder, Numbered, OneSession, Fresh
  <2> QED
    BY <2>2, <2>3 DEF ReadInv
<1>2. ASSUME NEW c \in Clients, ClientStep(c) \/ RecvStep(c) \/ Lose(c)
      PROVE  ReadInv'
  BY <1>2, RecvReadInv, ClientReadInv
<1>3. CASE TmrStep
  BY <1>3, TmrReadInv
<1> QED
  BY <1>1, <1>2, <1>3 DEF Next

\* A reader gets the blocks of its file in order, without gap or repeat,
\* whatever is lost or sent again: the file must be short enough for the
\* u16_t block number not to wrap, and either no allocation of send_data
\* fails or no request is sent twice (together they start a second session
\* one block ahead).
THEOREM ReadOrder ==
  ASSUME FileLen < BlkMod, ~NoMemory \/ ~ResendRequest
  PROVE  Spec => []ReadInOrder
<1>1. Init => ReadInv
  <2> SUFFICES ASSUME Init PROVE ReadInv
    OBVIOUS
  <2>1. ReadSession
    BY DEF Init, ServerInit, ReadSession
  <2>2. \A c \in Clients : /\ toSrv[c] = <<>> /\ toCli[c] = <<>> /\ got[c] = <<>>
                           /\ count[c] = 0 /\ cstate[c] = "idle" /\ peer # c
    BY ServerAssumption DEF Init, ServerInit
  <2>3. ReadersInv
    BY <2>2 DEF ReadersInv, GotInv, InOrder, Numbered, OneSession, Fresh
  <2> QED
    BY <2>1, <2>3 DEF ReadInv
<1>2. TypeOK /\ SessionCoherent /\ WriteInv /\ ReadInv /\ [Next]_vars => ReadInv'
  BY ReadInvStep
<1>3. ReadInv => ReadInOrder
  <2> SUFFICES ASSUME ReadInv, NEW c \in Clients PROVE InOrder(got[c])
    BY DEF ReadInOrder
  <2> QED
    BY DEF ReadInv, ReadersInv, GotInv, InOrder
<1> QED
  BY <1>1, <1>2, <1>3, TypeCorrect, SessionCoherence, WriteInvariant, PTL DEF Spec
=============================================================================
