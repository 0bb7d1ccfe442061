----------------------------- MODULE TftpSystem -----------------------------
(***************************************************************************)
(* The TFTP server composed with its clients over a network that loses     *)
(* packets but keeps the order of those it delivers (one Ethernet segment  *)
(* between the control host and the board).  The clients are external: a   *)
(* client is one transfer by a standard lock-step TFTP program, which      *)
(* resends its last packet on a timeout and gives up on an error packet.   *)
(***************************************************************************)
EXTENDS TftpServer

CONSTANTS
  Writers,      \* the clients that write their file; the others read it
  ResendRequest \* TRUE: a client sends its request again on a timeout

ASSUME ClientAssumption == Writers \subseteq Clients /\ ResendRequest \in BOOLEAN

VARIABLES
  cstate,   \* cstate[c]: what client c is doing
  count,    \* count[c]: blocks acknowledged to a writer, received by a reader
  got       \* got[c]: the blocks a reader has accepted

clientVars == <<cstate, count, got>>
vars == <<serverVars, toSrv, toCli, clientVars>>

CState == {"idle", "wrq", "rrq", "writing", "reading", "done", "failed"}
Active(c) == cstate[c] \in {"wrq", "rrq", "writing", "reading"}

ClientSend(c, m) == toSrv' = [toSrv EXCEPT ![c] = Put(@, m)]
ClientTake(c) == toCli[c] # <<>> /\ toCli' = [toCli EXCEPT ![c] = Tail(@)]
Reply(c) == Head(toCli[c])

Start(c) ==
  /\ cstate[c] = "idle"
  /\ \/ /\ c \in Writers
        /\ ClientSend(c, Request("WRQ"))
        /\ cstate' = [cstate EXCEPT ![c] = "wrq"]
     \/ /\ c \notin Writers
        /\ ClientSend(c, Request("RRQ"))
        /\ cstate' = [cstate EXCEPT ![c] = "rrq"]
  /\ UNCHANGED <<serverVars, toCli, count, got>>

\* ACK 0 to the write request: send the first block.
GetAck0(c) ==
  /\ ClientTake(c)
  /\ cstate[c] = "wrq" /\ Reply(c) = Ack(0)
  /\ cstate' = [cstate EXCEPT ![c] = "writing"]
  /\ ClientSend(c, Data(BlockPkt(1)))
  /\ UNCHANGED <<serverVars, count, got>>

\* The ACK of the block in flight: send the next one, or be done.
GetAck(c) ==
  /\ ClientTake(c)
  /\ cstate[c] = "writing" /\ Reply(c) = Ack((count[c] + 1) % BlkMod)
  /\ count' = [count EXCEPT ![c] = @ + 1]
  /\ IF count[c] + 1 = FileLen
       THEN /\ cstate' = [cstate EXCEPT ![c] = "done"]
            /\ UNCHANGED toSrv
       ELSE /\ ClientSend(c, Data(BlockPkt(count[c] + 2)))
            /\ UNCHANGED cstate
  /\ UNCHANGED <<serverVars, got>>

\* The next block of a read: acknowledge it.
GetData(c) ==
  /\ ClientTake(c)
  /\ cstate[c] \in {"rrq", "reading"} /\ count[c] < FileLen
  /\ Reply(c).op = "DATA" /\ Reply(c).blk = (count[c] + 1) % BlkMod
  /\ count' = [count EXCEPT ![c] = @ + 1]
  /\ got' = [got EXCEPT ![c] = Append(@, Reply(c).data)]
  /\ ClientSend(c, Ack(Reply(c).blk))
  /\ cstate' = [cstate EXCEPT ![c] = IF Reply(c).full THEN "reading" ELSE "done"]
  /\ UNCHANGED serverVars

\* A block the reader already has: acknowledge it again.
GetDataAgain(c) ==
  /\ ClientTake(c)
  /\ cstate[c] \in {"reading", "done"}
  /\ Reply(c).op = "DATA" /\ Reply(c).blk = count[c] % BlkMod
  /\ ClientSend(c, Ack(Reply(c).blk))
  /\ UNCHANGED <<serverVars, clientVars>>

GetError(c) ==
  /\ ClientTake(c)
  /\ Active(c) /\ Reply(c).op = "ERROR"
  /\ cstate' = [cstate EXCEPT ![c] = "failed"]
  /\ UNCHANGED <<serverVars, toSrv, count, got>>

\* Anything else is ignored, as a packet the network loses is.
Lose(c) ==
  \/ ClientTake(c) /\ UNCHANGED <<serverVars, toSrv, clientVars>>
  \/ toSrv[c] # <<>> /\ Consume(c) /\ UNCHANGED <<serverVars, toCli, clientVars>>

\* No answer in time: resend the request, the block or the last ACK.
Resend(c) ==
  /\ \/ cstate[c] = "wrq" /\ ResendRequest /\ ClientSend(c, Request("WRQ"))
     \/ cstate[c] = "rrq" /\ ResendRequest /\ ClientSend(c, Request("RRQ"))
     \/ cstate[c] = "writing" /\ ClientSend(c, Data(BlockPkt(count[c] + 1)))
     \/ cstate[c] = "reading" /\ ClientSend(c, Ack(count[c] % BlkMod))
  /\ UNCHANGED <<serverVars, toCli, clientVars>>

\* The user gives up or the client crashes, with or without an error packet.
Quit(c) ==
  /\ Active(c)
  /\ cstate' = [cstate EXCEPT ![c] = "failed"]
  /\ \/ ClientSend(c, Error)
     \/ UNCHANGED toSrv
  /\ UNCHANGED <<serverVars, toCli, count, got>>

ClientStep(c) ==
  \/ Start(c) \/ GetAck0(c) \/ GetAck(c) \/ GetData(c) \/ GetDataAgain(c)
  \/ GetError(c) \/ Resend(c) \/ Quit(c)

RecvStep(c) == recv(c) /\ UNCHANGED clientVars
TmrStep == tftp_tmr /\ UNCHANGED clientVars
InitStep == casper_tftp_init /\ UNCHANGED clientVars

Init ==
  /\ ServerInit
  /\ toSrv = [c \in Clients |-> <<>>] /\ toCli = [c \in Clients |-> <<>>]
  /\ cstate = [c \in Clients |-> "idle"]
  /\ count = [c \in Clients |-> 0]
  /\ got = [c \in Clients |-> <<>>]

Next ==
  \/ \E c \in Clients : ClientStep(c) \/ RecvStep(c) \/ Lose(c)
  \/ TmrStep \/ InitStep

Spec == Init /\ [][Next]_vars

(***************************************************************************)
(* The main loop polls the MAC and checks the timeouts for ever, so a      *)
(* delivered packet is handled and an armed timer fires.                   *)
(***************************************************************************)
FairSpec == Spec /\ WF_vars(TmrStep) /\ \A c \in Clients : WF_vars(RecvStep(c))

(***************************************************************************)
(* Properties.                                                             *)
(***************************************************************************)

\* Every variable of the server, the network and the clients stays in its
\* type: block numbers in a u16_t, timers within the sys_timeout pool.
TypeOK ==
  /\ ServerTypeOK
  /\ cstate \in [Clients -> CState]
  /\ count \in [Clients -> 0..FileLen]
  /\ got \in [Clients -> Seq(Block)]

\* A client counts blocks only once its request is answered, and a writer
\* stops at the last block.
ClientCoherent ==
  \A c \in Clients :
    /\ cstate[c] \in {"idle", "wrq"} => count[c] = 0
    /\ cstate[c] = "writing" => count[c] < FileLen

InOrder(s) == \A i \in 1..Len(s) : s[i] = i

\* The blocks written for a client (recv's TFTP_DATA case) are its own file's
\* blocks, in order, each exactly once, whatever is lost or sent again.
WrittenOnceInOrder ==
  \A c \in Clients : \A i \in 1..Len(stored[c]) : stored[c][i] = <<c, i>>

\* A block the client has seen acknowledged by send_ack has been written, so
\* a client whose write is done has its whole file stored.
AckedIsStored ==
  \A c \in Writers : count[c] <= Len(stored[c])

\* A reader receives its file's blocks in order without gap or repeat, across
\* send_data, resend_data and the retries of tftp_tmr.
ReadInOrder == \A c \in Clients : InOrder(got[c])

\* An open session has a timer that can end it, and a peer; a closed one
\* keeps no retained packet and no read or write function behind
\* (close_handle, sys_timeout in recv, the re-arming in tftp_tmr).
SessionCoherent ==
  /\ handle <=> peer # NoPeer
  /\ handle => armed > 0
  /\ ~handle => last_data = NoData /\ ctxfn = "error"

(***************************************************************************)
(* Why writes are exactly once: the invariant behind WrittenOnceInOrder.   *)
(* It needs FileLen < BlkMod: a u16_t block number that never wraps.       *)
(***************************************************************************)

\* The packets of a writer on their way to the server, when k blocks are
\* stored and n known to be: requests, then blocks, in order, none older
\* than the last block stored and none beyond the one in flight.
InFlight(q, k, n) ==
  /\ \A p \in 1..Len(q) :
       /\ q[p].op \in {"WRQ", "DATA", "ERROR"}
       /\ q[p].op = "DATA" => q[p] = Data(BlockPkt(q[p].data))
       /\ q[p].op # "ERROR" => k <= q[p].data /\ q[p].data <= n + 1
  /\ \A p, r \in 1..Len(q) :
       p < r /\ q[p].op # "ERROR" /\ q[r].op # "ERROR" => q[p].data <= q[r].data

\* The answers to a writer: only stored blocks are acknowledged.
Answers(q, k) ==
  \A p \in 1..Len(q) : q[p].op \in {"ACK", "ERROR"} /\ q[p].blk <= k

NoBlocks(q) == \A p \in 1..Len(q) : q[p].op # "DATA"

WriterInv(c) ==
  /\ cstate[c] \notin {"rrq", "reading"}
  /\ count[c] <= Len(stored[c]) /\ Len(stored[c]) <= count[c] + 1
  /\ \A i \in 1..Len(stored[c]) : stored[c][i] = <<c, i>>
  /\ InFlight(toSrv[c], Len(stored[c]), count[c])
  /\ cstate[c] \in {"idle", "wrq"} => stored[c] = <<>> /\ NoBlocks(toSrv[c])
  /\ Answers(toCli[c], Len(stored[c]))

ReaderInv(c) ==
  /\ cstate[c] \notin {"wrq", "writing"}
  /\ stored[c] = <<>>
  /\ \A p \in 1..Len(toSrv[c]) : toSrv[c][p].op \in {"RRQ", "ACK", "ERROR"}

\* An open write session expects the block after the last one stored, which
\* is not the short one; only a reader's session retains a data packet.
SessionInv ==
  /\ handle /\ mode_write =>
       /\ peer \in Writers
       /\ Len(stored[peer]) < FileLen /\ blknum = Len(stored[peer]) + 1
  /\ last_data # NoData => peer \in Clients \ Writers

\* The inductive invariant: it ties the packets in flight in both directions
\* to what recv has stored and to the block number it expects.
WriteInv ==
  /\ \A c \in Writers : WriterInv(c)
  /\ \A c \in Clients \ Writers : ReaderInv(c)
  /\ SessionInv

\* A session whose client is gone ends by tftp_tmr's timeout, even while
\* other clients keep asking for one.
AbandonedSessionEnds ==
  \A c \in Clients : (peer = c /\ ~Active(c)) ~> (peer # c)

\* The server implements the abstract transfer.
Abstract == INSTANCE FileTransfer WITH
  Nobody <- NoPeer, owner <- peer, file <- stored,
  known <- [c \in Clients |-> IF c \in Writers THEN count[c] ELSE 0]

\* Every step of recv, tftp_tmr and the clients is a step of FileTransfer or
\* leaves its state unchanged.
ImplementsFileTransfer == Abstract!Spec
=============================================================================
