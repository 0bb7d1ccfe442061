----------------------------- MODULE TftpServer -----------------------------
(***************************************************************************)
(* The TFTP server of the JAM firmware: lwIP's tftp_server.c as modified   *)
(* for CASPER, with the function-pointer context casper_tftp.c gives it.   *)
(*                                                                         *)
(* The server runs to completion inside udp input (recv) or inside         *)
(* sys_check_timeouts (tftp_tmr), so each handler is one action.  Clients  *)
(* are transfer identifiers: an address and an ephemeral port, fresh for   *)
(* every transfer.  A reply that cannot be sent because a pbuf could not   *)
(* be allocated is a reply the network loses.                              *)
(*                                                                         *)
(* Data is abstracted to block indices: block i of a file is the number i. *)
(* Every file has FileLen blocks, and only the last one is short (fewer    *)
(* than TFTP_MAX_PAYLOAD_SIZE bytes).                                      *)
(***************************************************************************)
EXTENDS Integers, Sequences

CONSTANTS
  Clients,      \* transfer identifiers (addr, port) of the peers
  NoPeer,       \* port 0, any address: nobody owns the session
  NoData,       \* a NULL last_data
  FileLen,      \* blocks in a file; the last one is short
  BlkMod,       \* 2^16 in the code: block numbers are u16_t
  TimeoutTicks, \* TFTP_TIMEOUT_MSECS / TFTP_TIMER_MSECS
  MaxRetries,   \* TFTP_MAX_RETRIES
  TmrSlots,     \* sys_timeout pool entries the cyclic timers leave free
  MaxChan,      \* bound on the packets in flight in one direction
  NoMemory      \* TRUE: pbuf_alloc may fail for the retained data packet

ASSUME ServerAssumption ==
  /\ NoPeer \notin Clients
  /\ NoData \notin [blk : 0..(BlkMod - 1), data : 1..FileLen, full : BOOLEAN]
  /\ FileLen \in Nat \ {0}
  /\ BlkMod \in Nat \ {0, 1}
  /\ TimeoutTicks \in Nat
  /\ MaxRetries \in Nat
  /\ TmrSlots \in Nat \ {0}
  /\ MaxChan \in Nat
  /\ NoMemory \in BOOLEAN

VARIABLES
  handle,       \* is tftp_state.handle non-NULL?
  peer,         \* tftp_state.addr and tftp_state.port, always set together
  mode_write,   \* tftp_state.mode_write
  blknum,       \* tftp_state.blknum
  last_data,    \* tftp_state.last_data: the data packet kept for resending
  idle,         \* timer - last_pkt, in ticks, cut off where it stops mattering
  retries,      \* tftp_state.retries
  armed,        \* tftp_tmr entries in the sys_timeout list
  ctxfn,        \* the function casper_tftp_context.read or .write points to
  rdpos,        \* blocks the read function has produced (tapcp_state)
  stored,       \* stored[c]: the blocks written for c, as <<sender, block>>
  toSrv,        \* toSrv[c]: packets from c to the server, in order
  toCli         \* toCli[c]: packets from the server to c, in order

serverVars == <<handle, peer, mode_write, blknum, last_data, idle, retries,
                armed, ctxfn, rdpos, stored>>

Block == 1..FileLen
BlkNum == 0..(BlkMod - 1)
DataPkt == [blk : BlkNum, data : Block, full : BOOLEAN]

(***************************************************************************)
(* Packets.  The fields an opcode does not use are constant.               *)
(***************************************************************************)
Packet ==
  [op : {"DATA"}, blk : BlkNum, data : Block, full : BOOLEAN] \cup
  [op : {"RRQ", "WRQ", "ACK", "ERROR"}, blk : BlkNum, data : {0}, full : {FALSE}]

Request(o) == [op |-> o, blk |-> 0, data |-> 0, full |-> FALSE]
Data(d)    == [op |-> "DATA", blk |-> d.blk, data |-> d.data, full |-> d.full]
Ack(b)     == [op |-> "ACK", blk |-> b, data |-> 0, full |-> FALSE]
Error      == [op |-> "ERROR", blk |-> 0, data |-> 0, full |-> FALSE]

\* The data packet carrying block i: its number on the wire is a u16_t.
BlockPkt(i) == [blk |-> i % BlkMod, data |-> i, full |-> i < FileLen]

\* A channel holds at most MaxChan packets: what does not fit is lost.
Put(q, m) == IF Len(q) < MaxChan THEN Append(q, m) ELSE q

(***************************************************************************)
(* The sys_timeout list: arming takes a pool entry if one is free (an      *)
(* empty pool only trips an assertion that is compiled to nothing), and    *)
(* sys_untimeout removes the first matching entry.                         *)
(***************************************************************************)
sys_timeout(a)   == IF a < TmrSlots THEN a + 1 ELSE a
sys_untimeout(a) == IF a > 0 THEN a - 1 ELSE a

(***************************************************************************)
(* Sending.  Replies go to the sender c of the packet being handled, whom  *)
(* recv has checked to be the session's peer if there is one.              *)
(***************************************************************************)
send(c, m)     == toCli' = [toCli EXCEPT ![c] = Put(@, m)]
send_error(c)  == send(c, Error)
send_ack(c, b) == send(c, Ack(b))
resend_data(d) == send(peer, Data(d))

\* Close the session; a is the number of armed timers before the call.
close_handle(a) ==
  /\ handle' = FALSE
  /\ peer' = NoPeer
  /\ last_data' = NoData
  /\ armed' = sys_untimeout(a)
  /\ ctxfn' = "error"

\* Keep the session as it is, with a timers armed.
keep(a) ==
  /\ armed' = a
  /\ UNCHANGED <<handle, peer, ctxfn>>

(***************************************************************************)
(* send_data: free last_data, allocate a packet, fill it from ctx->read    *)
(* and send it.  The read position is p, the block number b, the context's *)
(* function fn, and a timers are armed.  Without memory nothing is sent;   *)
(* a failing read closes the session just opened or in progress.           *)
(***************************************************************************)
SendDataNoMem(c, fn, a) ==
  /\ NoMemory
  /\ last_data' = NoData
  /\ handle' = TRUE /\ peer' = c /\ ctxfn' = fn /\ armed' = a
  /\ UNCHANGED toCli

SendDataReadError(c, a) ==
  /\ send_error(c)
  /\ close_handle(a)

SendDataOk(c, p, b, fn, a) ==
  LET d == [blk |-> b, data |-> p + 1, full |-> p + 1 < FileLen] IN
  /\ fn = "read" /\ p < FileLen
  /\ last_data' = d
  /\ send(c, Data(d))
  /\ handle' = TRUE /\ peer' = c /\ ctxfn' = fn /\ armed' = a

send_data(c, p, b, fn, a) ==
  \/ SendDataNoMem(c, fn, a) /\ rdpos' = p
  \/ SendDataReadError(c, a) /\ rdpos' = p
  \/ SendDataOk(c, p, b, fn, a) /\ rdpos' = p + 1

(***************************************************************************)
(* recv: one packet from client c.                                         *)
(***************************************************************************)
Head1(c) == Head(toSrv[c])
Consume(c) == toSrv' = [toSrv EXCEPT ![c] = Tail(@)]

Foreign(c) == peer # NoPeer /\ peer # c

\* Mutant: last_pkt is refreshed before the sender is checked.
RecvForeignRefreshes(c) ==
  /\ toSrv[c] # <<>> /\ Foreign(c)
  /\ Consume(c) /\ send_error(c)
  /\ idle' = 0 /\ retries' = 0
  /\ UNCHANGED <<handle, peer, mode_write, blknum, last_data, armed, ctxfn,
                 rdpos, stored>>

\* A packet from anyone but the session's peer is answered with an error
\* before anything is recorded.
RecvForeign(c) ==
  /\ toSrv[c] # <<>> /\ Foreign(c)
  /\ Consume(c) /\ send_error(c)
  /\ UNCHANGED serverVars

\* Every other packet counts as a sign of life of the peer.
Accepted(c, ops) ==
  /\ toSrv[c] # <<>> /\ ~Foreign(c) /\ Head1(c).op \in ops
  /\ Consume(c)
  /\ idle' = 0 /\ retries' = 0

\* A request during a session, from the session's own peer.
RecvRequestBusy(c) ==
  /\ Accepted(c, {"RRQ", "WRQ"}) /\ handle
  /\ send_error(c)
  /\ UNCHANGED <<handle, peer, mode_write, blknum, last_data, armed, ctxfn,
                 rdpos, stored>>

\* A request that is refused, because its strings are too long or because
\* open fails: the timer armed for it stays armed.
RecvRequestRefused(c) ==
  /\ Accepted(c, {"RRQ", "WRQ"}) /\ ~handle
  /\ send_error(c)
  /\ armed' = sys_timeout(armed)
  /\ \/ UNCHANGED <<blknum, ctxfn>>
     \/ blknum' = 1 /\ ctxfn' = "error"
  /\ UNCHANGED <<handle, peer, mode_write, last_data, rdpos, stored>>

RecvWrq(c) ==
  /\ Accepted(c, {"WRQ"}) /\ ~handle
  /\ handle' = TRUE /\ peer' = c /\ mode_write' = TRUE
  /\ blknum' = 1
  /\ armed' = sys_timeout(armed)
  /\ ctxfn' = "write"
  /\ stored' = [stored EXCEPT ![c] = <<>>]
  /\ send_ack(c, 0)
  /\ UNCHANGED <<last_data, rdpos>>

\* Mutant: the read function keeps the position of the transfer before.
RecvRrqKeepsPosition(c) ==
  /\ Accepted(c, {"RRQ"}) /\ ~handle
  /\ mode_write' = FALSE
  /\ blknum' = 1
  /\ send_data(c, rdpos, 1, "read", sys_timeout(armed))
  /\ UNCHANGED stored

RecvRrq(c) ==
  /\ Accepted(c, {"RRQ"}) /\ ~handle
  /\ mode_write' = FALSE
  /\ blknum' = 1
  /\ send_data(c, 0, 1, "read", sys_timeout(armed))
  /\ UNCHANGED stored

\* Mutant: no block is recognised as a duplicate.
IsDuplicateNever(b) == FALSE

\* The int subtraction: with blknum 0 it is -1, which no u16_t equals.
IsDuplicate(b) == b = blknum - 1

\* A block already written is acknowledged again; a short one ends the
\* session even then.
RecvDataDuplicate(c) ==
  /\ Accepted(c, {"DATA"}) /\ handle /\ mode_write /\ IsDuplicate(Head1(c).blk)
  /\ send_ack(c, Head1(c).blk)
  /\ IF Head1(c).full THEN keep(armed) /\ UNCHANGED last_data
                      ELSE close_handle(armed)
  /\ UNCHANGED <<mode_write, blknum, rdpos, stored>>

\* Mutant: the next block number is not cut to a u16_t.
RecvDataWriteWide(c) ==
  /\ Accepted(c, {"DATA"}) /\ handle /\ mode_write /\ ~IsDuplicate(Head1(c).blk)
  /\ ctxfn = "write"
  /\ stored' = [stored EXCEPT ![peer] = Append(@, <<c, Head1(c).data>>)]
  /\ send_ack(c, Head1(c).blk)
  /\ blknum' = Head1(c).blk + 1
  /\ IF Head1(c).full THEN keep(armed) /\ UNCHANGED last_data
                      ELSE close_handle(armed)
  /\ UNCHANGED <<mode_write, rdpos>>

\* Mutant: the short block that ends a file does not close the session.
RecvDataWriteStaysOpen(c) ==
  /\ Accepted(c, {"DATA"}) /\ handle /\ mode_write /\ ~IsDuplicate(Head1(c).blk)
  /\ ctxfn = "write"
  /\ stored' = [stored EXCEPT ![peer] = Append(@, <<c, Head1(c).data>>)]
  /\ send_ack(c, Head1(c).blk)
  /\ blknum' = (Head1(c).blk + 1) % BlkMod
  /\ keep(armed)
  /\ UNCHANGED <<mode_write, last_data, rdpos>>

\* Any other block is written, whatever its number is.
RecvDataWrite(c) ==
  /\ Accepted(c, {"DATA"}) /\ handle /\ mode_write /\ ~IsDuplicate(Head1(c).blk)
  /\ ctxfn = "write"
  /\ stored' = [stored EXCEPT ![peer] = Append(@, <<c, Head1(c).data>>)]
  /\ send_ack(c, Head1(c).blk)
  /\ blknum' = (Head1(c).blk + 1) % BlkMod
  /\ IF Head1(c).full THEN keep(armed) /\ UNCHANGED last_data
                      ELSE close_handle(armed)
  /\ UNCHANGED <<mode_write, rdpos>>

\* Mutant: a failed write is acknowledged like a good one.
RecvDataWriteErrorAcked(c) ==
  /\ Accepted(c, {"DATA"}) /\ handle /\ mode_write /\ ~IsDuplicate(Head1(c).blk)
  /\ send_ack(c, Head1(c).blk)
  /\ close_handle(IF Head1(c).full THEN armed ELSE sys_untimeout(armed))
  /\ UNCHANGED <<mode_write, blknum, rdpos, stored>>

\* ctx->write may refuse a block, and casper_tftp_write_error always does.
\* The session is closed, twice if the block is short.
RecvDataWriteError(c) ==
  /\ Accepted(c, {"DATA"}) /\ handle /\ mode_write /\ ~IsDuplicate(Head1(c).blk)
  /\ send_error(c)
  /\ close_handle(IF Head1(c).full THEN armed ELSE sys_untimeout(armed))
  /\ UNCHANGED <<mode_write, blknum, rdpos, stored>>

\* DATA or ACK without a session or in a session of the other direction, a
\* wrong block number in an ACK, or an unknown opcode: only an error reply.
RecvRejected(c) ==
  /\ Accepted(c, {"DATA", "ACK", "ERROR"})
  /\ \/ ~handle
     \/ Head1(c).op = "DATA" /\ ~mode_write
     \/ Head1(c).op = "ACK" /\ mode_write
     \/ Head1(c).op = "ACK" /\ Head1(c).blk # blknum
     \/ Head1(c).op = "ERROR"
  /\ send_error(c)
  /\ UNCHANGED <<handle, peer, mode_write, blknum, last_data, armed, ctxfn,
                 rdpos, stored>>

\* last_data is known to be the last packet of the file when it is short.
IsLast(d) == d # NoData /\ ~d.full

AcceptedAck(c) ==
  /\ Accepted(c, {"ACK"}) /\ handle /\ ~mode_write /\ Head1(c).blk = blknum

RecvAck(c) ==
  /\ AcceptedAck(c) /\ ~IsLast(last_data)
  /\ blknum' = (blknum + 1) % BlkMod
  /\ send_data(c, rdpos, blknum', ctxfn, armed)
  /\ UNCHANGED <<mode_write, stored>>

RecvLastAck(c) ==
  /\ AcceptedAck(c) /\ IsLast(last_data)
  /\ close_handle(armed)
  /\ UNCHANGED <<mode_write, blknum, rdpos, stored, toCli>>

recv(c) ==
  \/ RecvForeign(c) \/ RecvRequestBusy(c) \/ RecvRequestRefused(c)
  \/ RecvWrq(c) \/ RecvRrq(c)
  \/ RecvDataDuplicate(c) \/ RecvDataWrite(c) \/ RecvDataWriteError(c)
  \/ RecvRejected(c) \/ RecvAck(c) \/ RecvLastAck(c)

(***************************************************************************)
(* tftp_tmr: called from sys_check_timeouts, which has taken its entry off *)
(* the list.  It arms itself again only while a session is open.           *)
(***************************************************************************)
Elapsed == IF idle > TimeoutTicks THEN idle ELSE idle + 1

TmrNoSession ==
  /\ armed > 0 /\ ~handle
  /\ armed' = armed - 1
  /\ idle' = Elapsed
  /\ UNCHANGED <<handle, peer, mode_write, blknum, last_data, retries, ctxfn,
                 rdpos, stored, toSrv, toCli>>

TmrFires == armed > 0 /\ handle /\ idle' = Elapsed

\* Mutant: a timer that has nothing to do yet does not arm itself again.
TmrWaitOnce ==
  /\ TmrFires /\ Elapsed <= TimeoutTicks
  /\ armed' = armed - 1
  /\ UNCHANGED <<handle, peer, mode_write, blknum, last_data, retries, ctxfn,
                 rdpos, stored, toSrv, toCli>>

TmrWait ==
  /\ TmrFires /\ Elapsed <= TimeoutTicks
  /\ armed' = sys_timeout(armed - 1)
  /\ UNCHANGED <<handle, peer, mode_write, blknum, last_data, retries, ctxfn,
                 rdpos, stored, toSrv, toCli>>

TmrResend ==
  /\ TmrFires /\ Elapsed > TimeoutTicks
  /\ last_data # NoData /\ retries < MaxRetries
  /\ resend_data(last_data)
  /\ retries' = retries + 1
  /\ keep(sys_timeout(armed - 1))
  /\ UNCHANGED <<mode_write, blknum, last_data, rdpos, stored, toSrv>>

TmrClose ==
  /\ TmrFires /\ Elapsed > TimeoutTicks
  /\ last_data = NoData \/ retries >= MaxRetries
  /\ close_handle(sys_timeout(armed - 1))
  /\ UNCHANGED <<mode_write, blknum, retries, rdpos, stored, toSrv, toCli>>

tftp_tmr == TmrNoSession \/ TmrWait \/ TmrResend \/ TmrClose

(***************************************************************************)
(* casper_tftp_init runs again whenever the interface's address changes.   *)
(* It replaces the context's functions first; tftp_init then fails to bind *)
(* the port it already owns and changes nothing.                           *)
(***************************************************************************)
casper_tftp_init ==
  /\ ctxfn' = "error"
  /\ UNCHANGED <<handle, peer, mode_write, blknum, last_data, idle, retries,
                 armed, rdpos, stored, toSrv, toCli>>

\* The state after the first casper_tftp_init, which binds the port.
ServerInit ==
  /\ handle = FALSE /\ peer = NoPeer /\ mode_write = FALSE
  /\ blknum = 0 /\ last_data = NoData
  /\ idle = 0 /\ retries = 0 /\ armed = 0
  /\ ctxfn = "error" /\ rdpos = 0
  /\ stored = [c \in Clients |-> <<>>]

ServerTypeOK ==
  /\ handle \in BOOLEAN
  /\ peer \in Clients \cup {NoPeer}
  /\ mode_write \in BOOLEAN
  /\ blknum \in BlkNum
  /\ last_data \in DataPkt \cup {NoData}
  /\ idle \in 0..(TimeoutTicks + 1)
  /\ retries \in 0..MaxRetries
  /\ armed \in 0..TmrSlots
  /\ ctxfn \in {"error", "read", "write"}
  /\ rdpos \in 0..FileLen
  /\ stored \in [Clients -> Seq(Clients \X Block)]
  /\ toSrv \in [Clients -> Seq(Packet)]
  /\ toCli \in [Clients -> Seq(Packet)]
=============================================================================
