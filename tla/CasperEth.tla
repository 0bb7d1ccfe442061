----------------------------- MODULE CasperEth -----------------------------
(***************************************************************************)
(* The Ethernet driver of the JAM firmware (casper_eth.c) and the CPU port *)
(* of the 10 GbE core it drives (tge_tx.v, tge_rx.v, wb_attach.v).         *)
(*                                                                         *)
(* The core keeps two transmit banks.  The CPU writes one of them; storing *)
(* a size in the TX size register asks the core to exchange the banks,     *)
(* which it does once the other bank has left for the wire, and which it   *)
(* reports by clearing the size.  On receive it has the mirror image.      *)
(* The driver byte-swaps what it sends in the transmit bank, and, because  *)
(* the receive bank is read-only, what it receives there too.              *)
(*                                                                         *)
(* A 32-bit word is an origin (direction, frame, position) and whether its *)
(* bytes are in wire order.  Frame k of a direction is the k-th one.  The  *)
(* driver's register polls are abstracted to their outcome: after any      *)
(* number of polls the loop has seen the size at zero or has given up.     *)
(* Giving up is possible only if the core is slower than a thousand polls, *)
(* which a prompt load rules out.                                          *)
(***************************************************************************)
EXTENDS Integers, Sequences

CONSTANTS
  TxLens,      \* lengths in words of the frames the stack sends
  RxLens,      \* lengths in words of the frames that arrive
  MinWords,    \* 16: frames are padded to 64 bytes
  CoreWords,   \* 32-bit words in a word of the core: TX_WORD_SIZE / 4
  MaxWords,    \* ETHERNET_MTU + SIZEOF_ETH_HDR, in words
  BankWords,   \* words in a bank
  NSend,       \* bound on the frames the stack hands to the driver
  Loads,       \* [prompt, send, recv]: does the core always free the TX buffer
               \* within 1000 polls, and how many frames go each way?
  Flips        \* bound on the changes of the link state

ASSUME EthAssumption ==
  /\ TxLens \subseteq Nat \ {0}
  /\ RxLens \subseteq Nat \ {0}
  /\ MinWords \in Nat
  /\ CoreWords \in Nat \ {0}
  /\ MaxWords \in 0..BankWords
  /\ BankWords \in Nat
  /\ Loads \subseteq [prompt : BOOLEAN, send : 0..NSend, recv : Nat]
  /\ NSend \in Nat
  /\ Flips \in Nat

VARIABLES
  load,       \* the load of this behaviour
  pc,         \* where the main loop is in the driver
  ret,        \* where casper_netif_output returns to
  out,        \* the length of the frame being sent, 0 if none
  last_link,  \* ifstate.last_link_state: 255 before the first look
  i,          \* the word the receive loops are at
  pbuf,       \* the words copied into the pbuf so far
  bank,       \* the two transmit banks
  sel,        \* cpu_buffer_sel: the bank the CPU sees
  tx_size,    \* the TX size register; non-zero means cpu_tx_ready
  mac_size,   \* words of the other bank being sent; non-zero: mac_pending
  mac_sent,   \* the words of it already on the wire
  rx_size,    \* the RX size register, in 32-bit words
  rx_bank,    \* the frame in the receive bank the CPU sees
  rx_wait,    \* the frame complete in the other one (CPU_WAIT), 0 if none
  link,       \* the link bit of the status register
  flips,      \* changes of it so far
  accepted,   \* history: lengths of the frames whose size was stored
  refused,    \* history: number of ERR_INPROGRESS returned
  wire,       \* history: the frames transmitted, as words
  arrived,    \* history: lengths of the frames that arrived
  input       \* history: the frames given to the stack, as words

cpuVars == <<pc, ret, out, last_link, i, pbuf>>
txVars == <<bank, sel, tx_size, mac_size, mac_sent>>
rxVars == <<rx_size, rx_bank, rx_wait>>
lineVars == <<load, link, flips>>
history == <<accepted, refused, wire, arrived, input>>
vars == <<cpuVars, txVars, rxVars, lineVars, history>>

Word == [dir : {"tx"}, frame : 1..NSend, pos : 1..BankWords, swapped : BOOLEAN]
        \cup [dir : {"rx"}, frame : 1..load.recv, pos : 1..BankWords,
              swapped : BOOLEAN]
        \cup {[dir |-> "zero"]}

Zero == [dir |-> "zero"]
TxWord(f, p) == [dir |-> "tx", frame |-> f, pos |-> p, swapped |-> FALSE]
RxWord(f, p) == [dir |-> "rx", frame |-> f, pos |-> p, swapped |-> TRUE]

\* mb_swapb: reverses the bytes of a word.
mb_swapb(w) == IF w = Zero THEN w ELSE [w EXCEPT !.swapped = ~@]

Init ==
  /\ load \in Loads
  /\ pc = "links" /\ ret = "rx" /\ out = 0 /\ last_link = 255
  /\ i = 0 /\ pbuf = <<>>
  /\ bank = [b \in {0, 1} |-> [p \in 1..BankWords |-> Zero]] /\ sel = 0
  /\ tx_size = 0 /\ mac_size = 0 /\ mac_sent = <<>>
  /\ rx_size = 0 /\ rx_bank = 0 /\ rx_wait = 0
  /\ link \in {0, 1} /\ flips = 0
  /\ accepted = <<>> /\ refused = 0 /\ wire = <<>>
  /\ arrived = <<>> /\ input = <<>>

-----------------------------------------------------------------------------
(***************************************************************************)
(* The core.                                                               *)
(***************************************************************************)

\* The handshake exchanges the banks and clears the size register: the CPU
\* now sees what it sent one frame earlier.
ExchangeBanks ==
  /\ tx_size # 0 /\ mac_size = 0
  /\ sel' = 1 - sel
  /\ mac_size' = tx_size * CoreWords
  /\ tx_size' = 0
  /\ UNCHANGED <<bank, mac_sent, cpuVars, rxVars, lineVars, history>>

\* TX_CPU_WAIT and TX_SEND_CPU: one word leaves; the last one ends the frame.
SendWord ==
  /\ mac_size # 0
  /\ LET sent == Append(mac_sent, bank[1 - sel][Len(mac_sent) + 1])
     IN IF Len(sent) = mac_size
          THEN mac_size' = 0 /\ mac_sent' = <<>> /\ wire' = Append(wire, sent)
          ELSE mac_sent' = sent /\ UNCHANGED <<mac_size, wire>>
  /\ UNCHANGED <<bank, sel, tx_size, cpuVars, rxVars, lineVars, accepted,
                 refused, arrived, input>>

\* A good frame for the CPU ends.  It is bypassed if the core still holds one.
Arrive ==
  /\ Len(arrived) < load.recv
  /\ \E n \in RxLens : arrived' = Append(arrived, n)
  /\ rx_wait' = IF rx_wait = 0 THEN Len(arrived') ELSE rx_wait
  /\ UNCHANGED <<rx_size, rx_bank, cpuVars, txVars, lineVars, accepted,
                 refused, wire, input>>

\* The receive banks are exchanged when the CPU has acknowledged the last one.
Present ==
  /\ rx_wait # 0 /\ rx_size = 0
  /\ rx_bank' = rx_wait /\ rx_wait' = 0
  /\ rx_size' = arrived[rx_wait]
  /\ UNCHANGED <<cpuVars, txVars, lineVars, history>>

LinkChange ==
  /\ flips < Flips
  /\ link' = 1 - link /\ flips' = flips + 1
  /\ UNCHANGED <<load, cpuVars, txVars, rxVars, history>>

-----------------------------------------------------------------------------
(***************************************************************************)
(* casper_netif_output_impl.                                               *)
(***************************************************************************)

\* The words sent for a frame of n words: at least MinWords, and one more if
\* that is not a whole number of words of the core.
Padded(n) ==
  LET m == IF n < MinWords THEN MinWords ELSE n
  IN IF m % CoreWords # 0 THEN m + 1 ELSE m

\* The stack may send a frame and then return to the driver at `to'.
MaySend(to) ==
  \/ pc' = to /\ UNCHANGED <<ret, out>>
  \/ /\ Len(accepted) + refused < load.send
     /\ \E n \in TxLens : out' = n
     /\ pc' = "out_wait" /\ ret' = to

\* Mutant: the TX buffer is filled without waiting for it.
OutFillNoWait ==
  /\ pc = "out_wait"
  /\ bank' = [bank EXCEPT ![sel] = [p \in 1..BankWords |->
                CASE p <= out -> mb_swapb(TxWord(Len(accepted) + 1, p))
                  [] p \in (out + 1)..Padded(out) -> Zero
                  [] OTHER -> @[p]]]
  /\ pc' = "out_start"
  /\ UNCHANGED <<ret, out, last_link, i, pbuf, sel, tx_size, mac_size,
                 mac_sent, rxVars, lineVars, history>>

\* The first loop saw the TX buffer free: the pbufs are copied, swapped and
\* padded with zeros in the bank the CPU sees.
OutFill ==
  /\ pc = "out_wait" /\ tx_size = 0
  /\ bank' = [bank EXCEPT ![sel] = [p \in 1..BankWords |->
                CASE p <= out -> mb_swapb(TxWord(Len(accepted) + 1, p))
                  [] p \in (out + 1)..Padded(out) -> Zero
                  [] OTHER -> @[p]]]
  /\ pc' = "out_start"
  /\ UNCHANGED <<ret, out, last_link, i, pbuf, sel, tx_size, mac_size,
                 mac_sent, rxVars, lineVars, history>>

\* The first loop gave up: the frame is dropped and the stack is told.
OutBusy ==
  /\ pc = "out_wait" /\ tx_size # 0 /\ ~load.prompt
  /\ refused' = refused + 1
  /\ pc' = ret /\ out' = 0
  /\ UNCHANGED <<ret, last_link, i, pbuf, txVars, rxVars, lineVars, accepted,
                 wire, arrived, input>>

\* Mutant: the size is that of the frame before padding.
OutStartUnpadded ==
  /\ pc = "out_start"
  /\ tx_size' = out \div CoreWords
  /\ accepted' = Append(accepted, out)
  /\ pc' = "out_done"
  /\ UNCHANGED <<ret, out, last_link, i, pbuf, bank, sel, mac_size, mac_sent,
                 rxVars, lineVars, refused, wire, arrived, input>>

OutStart ==
  /\ pc = "out_start"
  /\ tx_size' = Padded(out) \div CoreWords
  /\ accepted' = Append(accepted, out)
  /\ pc' = "out_done"
  /\ UNCHANGED <<ret, out, last_link, i, pbuf, bank, sel, mac_size, mac_sent,
                 rxVars, lineVars, refused, wire, arrived, input>>

\* The second loop saw the size cleared, or gave up with a warning.
OutDone ==
  /\ pc = "out_done"
  /\ tx_size = 0 \/ ~load.prompt
  /\ pc' = ret /\ out' = 0
  /\ UNCHANGED <<ret, last_link, i, pbuf, txVars, rxVars, lineVars, history>>

-----------------------------------------------------------------------------
(***************************************************************************)
(* casper_lwip_handler: the links, the received packets, the timeouts.     *)
(***************************************************************************)

\* casper_monitor_links: a link that came up makes the stack announce itself.
casper_monitor_links ==
  /\ pc = "links"
  /\ last_link' = link
  /\ IF last_link # link /\ link = 1
       THEN MaySend("rx")
       ELSE pc' = "rx" /\ UNCHANGED <<ret, out>>
  /\ UNCHANGED <<i, pbuf, txVars, rxVars, lineVars, history>>

RxNone ==
  /\ pc = "rx" /\ rx_size = 0
  /\ pc' = "timeouts"
  /\ UNCHANGED <<ret, out, last_link, i, pbuf, txVars, rxVars, lineVars, history>>

\* Mutant: a dropped packet is not acknowledged.
RxDropNoAck ==
  /\ pc = "rx" /\ rx_size # 0
  /\ UNCHANGED vars

\* Too large, or no pbuf: the packet is acknowledged and dropped.
RxDrop ==
  /\ pc = "rx" /\ rx_size # 0
  /\ rx_size' = 0
  /\ UNCHANGED <<rx_bank, rx_wait, cpuVars, txVars, lineVars, history>>

RxAlloc ==
  /\ pc = "rx" /\ rx_size \in 1..MaxWords
  /\ pc' = "rx_swap" /\ i' = 1 /\ pbuf' = <<>>
  /\ UNCHANGED <<ret, out, last_link, txVars, rxVars, lineVars, history>>

\* One word of the receive bank is swapped into the transmit bank.
RxSwap ==
  /\ pc = "rx_swap"
  /\ bank' = [bank EXCEPT ![sel][i] = mb_swapb(RxWord(rx_bank, i))]
  /\ IF i < rx_size
       THEN i' = i + 1 /\ UNCHANGED pc
       ELSE i' = 1 /\ pc' = "rx_copy"
  /\ UNCHANGED <<ret, out, last_link, pbuf, sel, tx_size, mac_size, mac_sent,
                 rxVars, lineVars, history>>

\* Mutant: the packet is not acknowledged.
RxCopyNoAck ==
  /\ pc = "rx_copy"
  /\ pbuf' = Append(pbuf, bank[sel][i])
  /\ IF i < rx_size
       THEN i' = i + 1 /\ UNCHANGED pc
       ELSE i' = 0 /\ pc' = "rx_input"
  /\ UNCHANGED <<ret, out, last_link, txVars, rxVars, lineVars, history>>

\* One word is copied on to the pbuf; after the last the packet is
\* acknowledged.
RxCopy ==
  /\ pc = "rx_copy"
  /\ pbuf' = Append(pbuf, bank[sel][i])
  /\ IF i < rx_size
       THEN i' = i + 1 /\ UNCHANGED <<pc, rx_size>>
       ELSE i' = 0 /\ pc' = "rx_input" /\ rx_size' = 0
  /\ UNCHANGED <<ret, out, last_link, txVars, rx_bank, rx_wait, lineVars,
                 history>>

\* The stack takes the packet and may answer before it returns.
RxInput ==
  /\ pc = "rx_input"
  /\ input' = Append(input, pbuf)
  /\ pbuf' = <<>>
  /\ MaySend("rx")
  /\ UNCHANGED <<last_link, i, txVars, rxVars, lineVars, accepted, refused,
                 wire, arrived>>

\* sys_check_timeouts, if it is due: a timer of the stack may send.
Timeouts ==
  /\ pc = "timeouts"
  /\ MaySend("links")
  /\ UNCHANGED <<last_link, i, pbuf, txVars, rxVars, lineVars, history>>

casper_netif_output_impl == OutFill \/ OutBusy \/ OutStart \/ OutDone
casper_rx_packet == RxNone \/ RxDrop \/ RxAlloc \/ RxSwap \/ RxCopy \/ RxInput
casper_lwip_handler ==
  casper_monitor_links \/ casper_rx_packet \/ Timeouts
    \/ casper_netif_output_impl

Next ==
  \/ casper_lwip_handler
  \/ ExchangeBanks \/ SendWord \/ Arrive \/ Present \/ LinkChange

Spec == Init /\ [][Next]_vars

\* The main loop never waits for anything but the core, and the core goes on
\* with a frame it was given.  Nothing makes frames arrive.
Fairness ==
  /\ WF_vars(casper_lwip_handler)
  /\ WF_vars(ExchangeBanks) /\ WF_vars(SendWord) /\ WF_vars(Present)

FairSpec == Spec /\ Fairness

-----------------------------------------------------------------------------
\* Every variable stays in its type: no loop of the driver runs past the end
\* of a bank, whatever the size of the packet that arrived.
TypeOK ==
  /\ load \in Loads
  /\ pc \in {"links", "rx", "rx_swap", "rx_copy", "rx_input", "timeouts",
             "out_wait", "out_start", "out_done"}
  /\ ret \in {"links", "rx"}
  /\ out \in TxLens \cup {0}
  /\ last_link \in {0, 1, 255}
  /\ i \in 0..BankWords
  /\ pbuf \in Seq(Word)
  /\ bank \in [{0, 1} -> [1..BankWords -> Word]]
  /\ sel \in {0, 1}
  /\ tx_size \in 0..BankWords
  /\ mac_size \in 0..BankWords
  /\ mac_sent \in Seq(Word)
  /\ rx_size \in RxLens \cup {0}
  /\ rx_bank \in 0..load.recv /\ rx_wait \in 0..load.recv
  /\ link \in {0, 1} /\ flips \in 0..Flips
  /\ accepted \in Seq(TxLens) /\ refused \in 0..NSend
  /\ arrived \in Seq(RxLens)

\* What the wire must carry for the k-th accepted frame: its words in wire
\* order, and nothing but zeros in the padding.
WireForm(k) ==
  [p \in 1..Padded(accepted[k]) |->
     IF p <= accepted[k] THEN mb_swapb(TxWord(k, p)) ELSE Zero]

\* SentIntact: the frames on the wire are the frames casper_netif_output
\* accepted, in that order, each intact: no word overwritten in the bank by
\* the next frame or by the receive path, no remains of an older frame in the
\* padding.
SentIntact ==
  /\ Len(wire) <= Len(accepted)
  /\ \A k \in 1..Len(wire) : wire[k] = WireForm(k)

\* ReceivedIntact: every packet casper_rx_packet gives to the stack is one
\* that arrived, complete and in CPU byte order although it went through the
\* transmit bank; none is given twice and none overtakes another.
ReceivedIntact ==
  \A k \in 1..Len(input) :
    LET f == input[k][1].frame
    IN /\ input[k] = [p \in 1..arrived[f] |-> mb_swapb(RxWord(f, p))]
       /\ k > 1 => input[k - 1][1].frame < f

\* Drains: a frame the core holds back because the CPU has not acknowledged
\* the one before it is eventually presented: no path through
\* casper_rx_packet leaves without the acknowledgement, and no loop that
\* waits for the transmitter stops the receiver for good.
Drains == (rx_wait # 0) ~> (rx_wait = 0)

\* Departs: every frame whose size casper_netif_output_impl stored eventually
\* leaves on the wire; none is absorbed by the exchange of another.
Departs == \A k \in 1..NSend : (Len(accepted) >= k) ~> (Len(wire) >= k)
=============================================================================
