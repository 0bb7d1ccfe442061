-------------------------- MODULE CasperEthProofs --------------------------
(***************************************************************************)
(* Frames go through the banks of the core intact, in both directions, for *)
(* every number and length of frames, if the core is prompt or nothing is  *)
(* received.                                                               *)
(***************************************************************************)
EXTENDS CasperEth, TLAPS

\* What the build guarantees: the core's word is at most two 32-bit words, so
\* that one more word completes it, and a padded frame fits into a bank.
Fits == CoreWords \in {1, 2} /\ \A n \in TxLens : Padded(n) <= BankWords

\* What the core guarantees the driver: it frees the transmit buffer within a
\* thousand polls, or no packet is received.
PromptOrSilent == \A l \in Loads : l.prompt \/ l.recv = 0

(***************************************************************************)
(* The inductive invariant.                                                *)
(***************************************************************************)
Receiving == pc \in {"rx_swap", "rx_copy"}
Sending == pc \in {"out_wait", "out_start"}

\* The words of accepted frame k, of n words, and those of received frame f.
OutWord(k, n, p) == IF p <= n THEN mb_swapb(TxWord(k, p)) ELSE Zero
InWord(f, p) == mb_swapb(RxWord(f, p))

HoldsFrame(b, k, n) == \A p \in 1..Padded(n) : bank[b][p] = OutWord(k, n, p)

\* The driver's place agrees with the registers: it waits for a prompt core,
\* receives only while the core shows a packet that fits, and sends no more
\* frames than the stack has.
Control ==
  /\ Sending => out \in TxLens
  /\ Len(accepted) + refused + (IF Sending THEN 1 ELSE 0) <= load.send
  /\ tx_size # 0 => pc # "out_start" /\ (load.prompt => pc = "out_done")
  /\ Receiving => rx_size \in 1..MaxWords /\ i \in 1..rx_size
  /\ pc = "rx_input" => arrived # <<>>

\* A frame the core shows or holds is one that arrived, the latter later.
RxHeld ==
  /\ Len(arrived) <= load.recv
  /\ rx_bank <= Len(arrived) /\ rx_wait <= Len(arrived)
  /\ rx_size # 0 => rx_bank # 0 /\ rx_size = arrived[rx_bank]
  /\ rx_wait # 0 => rx_bank < rx_wait

\* Every accepted frame is on the wire, leaving, or waiting for the exchange,
\* and the two banks hold the last two.
TxHeld ==
  /\ Len(accepted) = Len(wire) + (IF mac_size # 0 THEN 1 ELSE 0)
                               + (IF tx_size # 0 THEN 1 ELSE 0)
  /\ mac_size # 0 =>
       /\ mac_size = Padded(accepted[Len(wire) + 1])
       /\ HoldsFrame(1 - sel, Len(wire) + 1, accepted[Len(wire) + 1])
  /\ tx_size # 0 =>
       /\ tx_size * CoreWords = Padded(accepted[Len(accepted)])
       /\ HoldsFrame(sel, Len(accepted), accepted[Len(accepted)])
  /\ pc = "out_start" => HoldsFrame(sel, Len(accepted) + 1, out)

\* What has left of the frame that is leaving.
Leaving ==
  /\ mac_size = 0 => mac_sent = <<>>
  /\ mac_size # 0 => Len(mac_sent) < mac_size
  /\ \A p \in 1..Len(mac_sent) : mac_sent[p] = bank[1 - sel][p]

\* The packet being received has been swapped and copied up to word i.
InPlace ==
  /\ pc = "rx_swap" => \A p \in 1..(i - 1) : bank[sel][p] = InWord(rx_bank, p)
  /\ pc = "rx_copy" =>
       /\ \A p \in 1..rx_size : bank[sel][p] = InWord(rx_bank, p)
       /\ Len(pbuf) = i - 1
       /\ \A p \in 1..Len(pbuf) : pbuf[p] = InWord(rx_bank, p)
  /\ pc = "rx_swap" => pbuf = <<>>

\* The number of the last frame given to the stack.
LastIn == IF input = <<>> THEN 0 ELSE input[Len(input)][1].frame

Whole(s, f) == s = [p \in 1..arrived[f] |-> InWord(f, p)]

\* Frames are given to the stack in the order of their numbers.
InputOrder ==
  /\ LastIn <= rx_bank
  /\ rx_size # 0 => LastIn < rx_bank
  /\ pc = "rx_input" =>
       \E f \in 1..rx_bank : /\ Whole(pbuf, f) /\ LastIn < f
                             /\ rx_size # 0 => f < rx_bank
  /\ \A k \in 1..Len(input) :
       \E f \in 1..Len(arrived) :
         Whole(input[k], f) /\ (k > 1 => input[k - 1][1].frame < f)

\* The histories hold sequences of words.
HistoryOK == wire \in Seq(Seq(Word)) /\ input \in Seq(Seq(Word))

DriverInv == TypeOK /\ Control /\ RxHeld /\ HistoryOK
SentInv == TxHeld /\ Leaving /\ SentIntact
ReceivedInv == InPlace /\ InputOrder

(***************************************************************************)
(* Words and lengths.                                                      *)
(***************************************************************************)
LEMMA WordTypes ==
  /\ Zero \in Word
  /\ \A f \in 1..NSend, p \in 1..BankWords : mb_swapb(TxWord(f, p)) \in Word
  /\ \A f \in 1..load.recv, p \in 1..BankWords : InWord(f, p) \in Word
  /\ \A f, p : InWord(f, p).frame = f
<1>1. \A f, p : /\ TxWord(f, p).dir = "tx" /\ RxWord(f, p).dir = "rx" /\ Zero.dir = "zero"
  BY DEF TxWord, RxWord, Zero
<1>2. \A f, p : TxWord(f, p) # Zero /\ RxWord(f, p) # Zero
  BY <1>1
<1>3. \A f, p : /\ mb_swapb(TxWord(f, p)) =
                     [dir |-> "tx", frame |-> f, pos |-> p, swapped |-> TRUE]
                /\ mb_swapb(RxWord(f, p)) =
                     [dir |-> "rx", frame |-> f, pos |-> p, swapped |-> FALSE]
  BY <1>2 DEF mb_swapb, TxWord, RxWord
<1>4. Zero \in Word
  BY DEF Word, Zero
<1>5. \A f \in 1..NSend, p \in 1..BankWords : mb_swapb(TxWord(f, p)) \in Word
  <2> TAKE f \in 1..NSend, p \in 1..BankWords
  <2>1. [dir |-> "tx", frame |-> f, pos |-> p, swapped |-> TRUE] \in
          [dir : {"tx"}, frame : 1..NSend, pos : 1..BankWords, swapped : BOOLEAN]
    OBVIOUS
  <2> QED
    BY <1>3, <2>1, Zenon DEF Word
<1>6. \A f \in 1..load.recv, p \in 1..BankWords : InWord(f, p) \in Word
  <2> TAKE f \in 1..load.recv, p \in 1..BankWords
  <2>1. [dir |-> "rx", frame |-> f, pos |-> p, swapped |-> FALSE] \in
          [dir : {"rx"}, frame : 1..load.recv, pos : 1..BankWords, swapped : BOOLEAN]
    OBVIOUS
  <2> QED
    BY <1>3, <2>1, Zenon DEF Word, InWord
<1>7. \A f, p : InWord(f, p).frame = f
  BY <1>3 DEF InWord
<1> QED
  BY <1>4, <1>5, <1>6, <1>7

LEMMA PaddedFacts ==
  ASSUME Fits, NEW n \in TxLens
  PROVE  /\ n \in Nat \ {0} /\ Padded(n) \in 1..BankWords /\ n <= Padded(n)
         /\ Padded(n) \div CoreWords \in 1..BankWords
         /\ (Padded(n) \div CoreWords) * CoreWords = Padded(n)
<1>1. n \in Nat \ {0} /\ MinWords \in Nat /\ BankWords \in Nat
  BY EthAssumption
<1>2. Padded(n) <= BankWords /\ CoreWords \in {1, 2}
  BY DEF Fits
<1>3. CASE CoreWords = 1
  BY <1>1, <1>2, <1>3 DEF Padded
<1>4. CASE CoreWords = 2
  BY <1>1, <1>2, <1>4 DEF Padded
<1> QED
  BY <1>2, <1>3, <1>4

LEMMA AppendFacts ==
  ASSUME NEW S, NEW s \in Seq(S), NEW e \in S
  PROVE  /\ Append(s, e) \in Seq(S) /\ Len(Append(s, e)) = Len(s) + 1
         /\ Append(s, e)[Len(s) + 1] = e
         /\ \A j \in 1..Len(s) : Append(s, e)[j] = s[j]
OBVIOUS

LEMMA LoadType ==
  ASSUME load \in Loads
  PROVE  load.prompt \in BOOLEAN /\ load.send \in 0..NSend /\ load.recv \in Nat
BY EthAssumption

\* A packet is received only by a driver that waits for the core.
LEMMA ReceivingIsPrompt ==
  ASSUME PromptOrSilent, DriverInv
  PROVE  rx_size # 0 \/ Receiving \/ pc = "rx_input" => load.prompt
<1>1. rx_size # 0 \/ Receiving \/ pc = "rx_input" => load.recv # 0
  <2>1. rx_size # 0 => load.recv # 0
    BY LoadType DEF DriverInv, RxHeld, TypeOK
  <2>2. Receiving => rx_size # 0
    BY DEF DriverInv, Control
  <2>3. pc = "rx_input" => load.recv # 0
    <3>1. arrived # <<>> => Len(arrived) \in Nat \ {0}
      BY DEF DriverInv, TypeOK
    <3> QED
      BY <3>1, LoadType DEF DriverInv, Control, RxHeld, TypeOK
  <2> QED
    BY <2>1, <2>2, <2>3
<1> QED
  BY <1>1 DEF PromptOrSilent, DriverInv, TypeOK

(***************************************************************************)
(* Types, places and registers.                                            *)
(***************************************************************************)
LEMMA DriverInit == Init => DriverInv
<1> SUFFICES ASSUME Init PROVE DriverInv
  OBVIOUS
<1>1. load \in Loads /\ load.send \in Nat /\ load.recv \in Nat
  BY LoadType DEF Init
<1>2. bank \in [{0, 1} -> [1..BankWords -> Word]]
  BY WordTypes DEF Init
<1>3. TypeOK
  BY <1>1, <1>2, EthAssumption DEF Init, TypeOK
<1>4. Control /\ RxHeld /\ HistoryOK
  BY <1>1 DEF Init, Control, RxHeld, HistoryOK, Receiving, Sending
<1> QED
  BY <1>3, <1>4 DEF DriverInv

\* MaySend starts a frame only while the stack has one left.
LEMMA MaySendOut ==
  ASSUME DriverInv, ~Sending, NEW to \in {"links", "rx"}, MaySend(to),
         load' = load, accepted' = accepted, refused' = refused
  PROVE  /\ pc' \in {to, "out_wait"} /\ ret' \in {"links", "rx"}
         /\ out' \in TxLens \cup {0}
         /\ Sending' => out' \in TxLens
         /\ Len(accepted') + refused' + (IF Sending' THEN 1 ELSE 0) <= load.send
<1>1. load.send \in Nat /\ Len(accepted) \in Nat /\ refused \in Nat
  BY LoadType, EthAssumption DEF DriverInv, TypeOK
<1>2. CASE pc' = to /\ UNCHANGED <<ret, out>>
  BY <1>1, <1>2 DEF DriverInv, TypeOK, Control, Sending
<1>3. CASE /\ Len(accepted) + refused < load.send
           /\ \E n \in TxLens : out' = n
           /\ pc' = "out_wait" /\ ret' = to
  BY <1>1, <1>3 DEF Sending
<1> QED
  BY <1>2, <1>3 DEF MaySend

\* The driver's steps.
LEMMA DriverCpuStep ==
  ASSUME Fits, PromptOrSilent, DriverInv, casper_lwip_handler
  PROVE  DriverInv'
<1>0. /\ load \in Loads /\ load.send \in 0..NSend /\ load.recv \in Nat /\ NSend \in Nat
      /\ Len(accepted) \in Nat /\ refused \in Nat /\ Len(arrived) \in Nat
      /\ BankWords \in Nat /\ MaxWords \in 0..BankWords
  BY LoadType, EthAssumption DEF DriverInv, TypeOK
<1> USE <1>0
<1>1. load' = load /\ Word' = Word
  BY DEF casper_lwip_handler, casper_monitor_links, casper_rx_packet, Timeouts,
     casper_netif_output_impl, OutFill, OutBusy, OutStart, OutDone, RxNone, RxDrop, RxAlloc,
     RxSwap, RxCopy, RxInput, lineVars, Word
<1> USE <1>1
<1>2. CASE casper_monitor_links
  <2>1. /\ last_link' = link
        /\ UNCHANGED <<i, pbuf, txVars, rxVars, lineVars, history>>
        /\ MaySend("rx")
        /\ pc = "links"
    BY <1>2 DEF casper_monitor_links, MaySend
  <2>2. /\ pc' \in {"rx", "out_wait"} /\ ret' \in {"links", "rx"}
        /\ out' \in TxLens \cup {0}
        /\ Sending' => out' \in TxLens
        /\ Len(accepted') + refused' + (IF Sending' THEN 1 ELSE 0) <= load.send
    BY <2>1, MaySendOut DEF Sending, lineVars, history
  <2>3. Control'
    BY <2>1, <2>2 DEF DriverInv, Control, Receiving, txVars, rxVars, history
  <2> QED
    BY <2>1, <2>2, <2>3 DEF DriverInv, TypeOK, RxHeld, HistoryOK, txVars, rxVars, lineVars, history
<1>3. CASE Timeouts
  <2>1. /\ UNCHANGED <<last_link, i, pbuf, txVars, rxVars, lineVars, history>>
        /\ MaySend("links") /\ pc = "timeouts"
    BY <1>3 DEF Timeouts
  <2>2. /\ pc' \in {"links", "out_wait"} /\ ret' \in {"links", "rx"}
        /\ out' \in TxLens \cup {0}
        /\ Sending' => out' \in TxLens
        /\ Len(accepted') + refused' + (IF Sending' THEN 1 ELSE 0) <= load.send
    BY <2>1, MaySendOut DEF Sending, lineVars, history
  <2>3. Control'
    BY <2>1, <2>2 DEF DriverInv, Control, Receiving, txVars, rxVars, history
  <2> QED
    BY <2>1, <2>2, <2>3 DEF DriverInv, TypeOK, RxHeld, HistoryOK, txVars, rxVars, lineVars, history
<1>4. CASE RxInput
  <2>1. /\ UNCHANGED <<last_link, i, txVars, rxVars, lineVars, accepted, refused, wire, arrived>>
        /\ MaySend("rx") /\ pc = "rx_input" /\ input' = Append(input, pbuf) /\ pbuf' = <<>>
    BY <1>4 DEF RxInput
  <2>2. /\ pc' \in {"rx", "out_wait"} /\ ret' \in {"links", "rx"}
        /\ out' \in TxLens \cup {0}
        /\ Sending' => out' \in TxLens
        /\ Len(accepted') + refused' + (IF Sending' THEN 1 ELSE 0) <= load.send
    BY <2>1, MaySendOut DEF Sending, lineVars
  <2>3. Control'
    BY <2>1, <2>2 DEF DriverInv, Control, Receiving, txVars, rxVars
  <2>4. HistoryOK'
    BY <2>1 DEF DriverInv, HistoryOK, TypeOK
  <2> QED
    BY <2>1, <2>2, <2>3, <2>4 DEF DriverInv, TypeOK, RxHeld, txVars, rxVars, lineVars
<1>5. CASE RxNone \/ RxDrop \/ RxAlloc
  <2>1. /\ UNCHANGED <<ret, out, last_link, txVars, rx_bank, rx_wait, lineVars, history>>
        /\ pc = "rx" /\ pc' \in {"timeouts", "rx", "rx_swap"} /\ rx_size' \in {rx_size, 0}
        /\ pc' = "rx_swap" => rx_size' \in 1..MaxWords /\ i' = 1
        /\ i' = i \/ i' \in 0..BankWords
        /\ pbuf' = pbuf \/ pbuf' = <<>>
    BY <1>5 DEF RxNone, RxDrop, RxAlloc, cpuVars, rxVars, DriverInv, TypeOK
  <2>2. TypeOK'
    <3>1. rx_size' \in RxLens \cup {0} /\ i' \in 0..BankWords
      BY <2>1 DEF DriverInv, TypeOK
    <3>2. pbuf' \in Seq(Word)
      <4>1. <<>> \in Seq(Word) /\ pbuf \in Seq(Word)
        BY DEF DriverInv, TypeOK
      <4> QED
        BY <2>1, <4>1, Zenon
    <3> QED
      BY <2>1, <3>1, <3>2 DEF DriverInv, TypeOK, txVars, lineVars, history
  <2>3. Control'
    BY <2>1 DEF DriverInv, TypeOK, Control, Receiving, Sending, txVars, lineVars, history
  <2>4. RxHeld' /\ HistoryOK'
    BY <2>1 DEF DriverInv, RxHeld, HistoryOK, lineVars, history
  <2> QED
    BY <2>2, <2>3, <2>4 DEF DriverInv
<1>6. CASE RxSwap
  <2>1. /\ rx_size \in 1..MaxWords /\ i \in 1..rx_size /\ i \in 1..BankWords
        /\ rx_bank \in 1..load.recv
    BY <1>6 DEF DriverInv, TypeOK, Control, RxHeld, Receiving, RxSwap
  <2>2. bank' \in [{0, 1} -> [1..BankWords -> Word]]
    <3>1. InWord(rx_bank, i) \in Word
      BY <2>1, WordTypes
    <3>2. bank' = [bank EXCEPT ![sel][i] = InWord(rx_bank, i)]
      BY <1>6 DEF RxSwap, InWord
    <3> QED
      BY <2>1, <3>1, <3>2 DEF DriverInv, TypeOK
  <2>3. TypeOK'
    BY <1>6, <2>1, <2>2 DEF DriverInv, TypeOK, RxSwap, rxVars, lineVars, history
  <2>4. Control'
    BY <1>6, <2>1, SMTT(30) DEF DriverInv, TypeOK, Control, Receiving, Sending, RxSwap, rxVars, lineVars, history
  <2>5. RxHeld' /\ HistoryOK'
    BY <1>6 DEF DriverInv, RxHeld, HistoryOK, RxSwap, rxVars, lineVars, history
  <2> QED
    BY <2>3, <2>4, <2>5 DEF DriverInv
<1>7. CASE RxCopy
  <2>1. rx_size \in 1..MaxWords /\ i \in 1..rx_size /\ i \in 1..BankWords
        /\ rx_bank \in 1..Len(arrived)
    BY <1>7 DEF DriverInv, TypeOK, Control, RxHeld, Receiving, RxCopy
  <2>2. pbuf' \in Seq(Word)
    BY <1>7, <2>1 DEF DriverInv, TypeOK, RxCopy
  <2>3. TypeOK'
    BY <1>7, <2>1, <2>2, SMTT(30) DEF DriverInv, TypeOK, RxCopy, txVars, lineVars, history
  <2>4. Control'
    <3>1. /\ UNCHANGED <<out, accepted, refused, arrived, tx_size>> /\ pc = "rx_copy"
          /\ \/ i < rx_size /\ i' = i + 1 /\ pc' = pc /\ rx_size' = rx_size
             \/ pc' = "rx_input"
      BY <1>7 DEF RxCopy, txVars, history
    <3>2. arrived # <<>>
      BY <2>1 DEF DriverInv, TypeOK
    <3> QED
      BY <2>1, <3>1, <3>2, SMTT(30) DEF DriverInv, TypeOK, Control, Receiving, Sending
  <2>5. RxHeld' /\ HistoryOK'
    BY <1>7 DEF DriverInv, RxHeld, HistoryOK, RxCopy, rxVars, lineVars, history
  <2> QED
    BY <2>3, <2>4, <2>5 DEF DriverInv
<1>8. CASE OutFill
  <2>1. out \in TxLens /\ Len(accepted) + 1 \in 1..NSend /\ pc' = "out_start"
    BY <1>8, SMTT(30) DEF DriverInv, TypeOK, Control, Sending, OutFill
  <2>2. bank' \in [{0, 1} -> [1..BankWords -> Word]]
    <3> DEFINE fill == [p \in 1..BankWords |->
                          CASE p <= out -> mb_swapb(TxWord(Len(accepted) + 1, p))
                            [] p \in (out + 1)..Padded(out) -> Zero
                            [] OTHER -> bank[sel][p]]
    <3>1. fill \in [1..BankWords -> Word]
      BY <2>1, WordTypes, SMTT(30) DEF DriverInv, TypeOK
    <3>2. bank' = [bank EXCEPT ![sel] = fill]
      BY <1>8 DEF OutFill
    <3> QED
      BY <3>1, <3>2 DEF DriverInv, TypeOK
  <2>3. TypeOK'
    BY <1>8, <2>2 DEF DriverInv, TypeOK, OutFill, rxVars, lineVars, history
  <2>4. Control'
    BY <1>8, <2>1 DEF DriverInv, TypeOK, Control, Receiving, Sending, OutFill, rxVars, lineVars, history
  <2>5. RxHeld' /\ HistoryOK'
    BY <1>8 DEF DriverInv, RxHeld, HistoryOK, OutFill, rxVars, lineVars, history
  <2> QED
    BY <2>3, <2>4, <2>5 DEF DriverInv
<1>9. CASE OutBusy \/ OutDone
  <2>1. /\ UNCHANGED <<ret, last_link, i, pbuf, txVars, rxVars, lineVars, accepted,
                       wire, arrived, input>>
        /\ pc' = ret /\ ret \in {"links", "rx"} /\ out' = 0
        /\ tx_size # 0 => ~load.prompt
        /\ \/ pc = "out_wait" /\ refused' = refused + 1
           \/ pc = "out_done" /\ refused' = refused
    BY <1>9 DEF DriverInv, TypeOK, OutBusy, OutDone, history
  <2>2. Len(accepted') + refused' <= load.send /\ refused' \in 0..NSend
    BY <2>1 DEF DriverInv, TypeOK, Control, Sending
  <2>3. Control'
    BY <2>1, <2>2 DEF DriverInv, TypeOK, Control, Receiving, Sending, txVars
  <2>4. TypeOK'
    BY <2>1, <2>2 DEF DriverInv, TypeOK, txVars, rxVars, lineVars
  <2>5. RxHeld' /\ HistoryOK'
    BY <2>1 DEF DriverInv, RxHeld, HistoryOK, rxVars, lineVars
  <2> QED
    BY <2>3, <2>4, <2>5 DEF DriverInv
<1>10. CASE OutStart
  <2>1. out \in TxLens /\ pc' = "out_done" /\ pc = "out_start"
    BY <1>10 DEF DriverInv, Control, Sending, OutStart
  <2>2. tx_size' \in 0..BankWords
    BY <1>10, <2>1, PaddedFacts DEF OutStart
  <2>3. accepted' \in Seq(TxLens) /\ Len(accepted') = Len(accepted) + 1
    BY <1>10, <2>1 DEF OutStart, DriverInv, TypeOK
  <2>4. TypeOK'
    BY <1>10, <2>1, <2>2, <2>3 DEF DriverInv, TypeOK, OutStart, rxVars, lineVars
  <2>5. Control'
    BY <1>10, <2>1, <2>3 DEF DriverInv, TypeOK, Control, Receiving, Sending, OutStart, rxVars, lineVars
  <2>6. RxHeld' /\ HistoryOK'
    BY <1>10 DEF DriverInv, RxHeld, HistoryOK, OutStart, rxVars, lineVars
  <2> QED
    BY <2>4, <2>5, <2>6 DEF DriverInv
<1> QED
  BY <1>2, <1>3, <1>4, <1>5, <1>6, <1>7, <1>8, <1>9, <1>10
  DEF casper_lwip_handler, casper_rx_packet, casper_netif_output_impl

\* The core's steps.
LEMMA DriverCoreStep ==
  ASSUME Fits, DriverInv, SentInv,
         ExchangeBanks \/ SendWord \/ Arrive \/ Present \/ LinkChange
  PROVE  DriverInv'
<1>0. /\ load \in Loads /\ load.recv \in Nat /\ BankWords \in Nat
      /\ accepted \in Seq(TxLens) /\ arrived \in Seq(RxLens)
      /\ Len(accepted) \in Nat /\ Len(arrived) \in Nat /\ Len(wire) \in Nat
  BY LoadType, EthAssumption DEF DriverInv, TypeOK, HistoryOK
<1>1. load' = load /\ Word' = Word /\ cpuVars' = cpuVars /\ refused' = refused
      /\ accepted' = accepted /\ input' = input /\ bank' = bank
  BY DEF ExchangeBanks, SendWord, Arrive, Present, LinkChange, lineVars, history, txVars, Word
<1> USE <1>0, <1>1 DEF cpuVars
<1>2. CASE ExchangeBanks
  <2>1. UNCHANGED <<mac_sent, rxVars, lineVars, history>> /\ tx_size # 0 /\ tx_size' = 0
        /\ sel' = 1 - sel /\ mac_size' = tx_size * CoreWords
    BY <1>2 DEF ExchangeBanks
  <2>2. mac_size' \in 0..BankWords
    <3>1. Len(accepted) # 0
      BY <2>1 DEF SentInv, TxHeld, DriverInv, TypeOK
    <3>2. accepted[Len(accepted)] \in TxLens
      BY <3>1
    <3> QED
      BY <2>1, <3>2, PaddedFacts, SMTT(30) DEF SentInv, TxHeld
  <2>3. TypeOK'
    BY <2>1, <2>2 DEF DriverInv, TypeOK, rxVars, lineVars, history
  <2>4. Control' /\ RxHeld' /\ HistoryOK'
    BY <2>1 DEF DriverInv, Control, RxHeld, HistoryOK, Receiving, Sending, rxVars, lineVars, history
  <2> QED
    BY <2>3, <2>4 DEF DriverInv
<1>3. CASE SendWord
  <2> DEFINE sent == Append(mac_sent, bank[1 - sel][Len(mac_sent) + 1])
  <2>1. /\ UNCHANGED <<sel, tx_size, rxVars, lineVars, arrived>> /\ mac_size # 0
        /\ \/ mac_size' = 0 /\ mac_sent' = <<>> /\ wire' = Append(wire, sent)
           \/ mac_size' = mac_size /\ mac_sent' = sent /\ wire' = wire
    BY <1>3 DEF SendWord
  <2>2. sent \in Seq(Word)
    <3>1. Len(mac_sent) + 1 \in 1..BankWords
      BY <2>1, SMTT(30) DEF SentInv, Leaving, DriverInv, TypeOK
    <3>2. bank[1 - sel][Len(mac_sent) + 1] \in Word
      BY <3>1 DEF DriverInv, TypeOK
    <3> QED
      BY <3>2 DEF DriverInv, TypeOK
  <2> HIDE DEF sent
  <2>3. mac_sent' \in Seq(Word) /\ wire' \in Seq(Seq(Word)) /\ mac_size' \in 0..BankWords
    <3>1. Append(wire, sent) \in Seq(Seq(Word)) /\ <<>> \in Seq(Word)
      BY <2>2 DEF DriverInv, HistoryOK
    <3>2. wire \in Seq(Seq(Word)) /\ mac_size \in 0..BankWords /\ 0 \in 0..BankWords
      BY DEF DriverInv, HistoryOK, TypeOK
    <3> QED
      BY <2>1, <2>2, <3>1, <3>2, Zenon
  <2>4. TypeOK'
    BY <2>1, <2>3 DEF DriverInv, TypeOK, rxVars, lineVars
  <2>5. Control' /\ RxHeld' /\ HistoryOK'
    BY <2>1, <2>3 DEF DriverInv, Control, RxHeld, HistoryOK, Receiving, Sending, rxVars, lineVars
  <2> QED
    BY <2>4, <2>5 DEF DriverInv
<1>4. CASE Arrive
  <2>1. /\ UNCHANGED <<rx_size, rx_bank, txVars, lineVars, wire>>
        /\ Len(arrived) < load.recv
        /\ \E n \in RxLens : arrived' = Append(arrived, n)
        /\ rx_wait' = IF rx_wait = 0 THEN Len(arrived') ELSE rx_wait
    BY <1>4 DEF Arrive
  <2>2. /\ arrived' \in Seq(RxLens) /\ Len(arrived') = Len(arrived) + 1 /\ arrived' # <<>>
        /\ \A k \in 1..Len(arrived) : arrived'[k] = arrived[k]
    BY <2>1
  <2>3. rx_bank \in 0..Len(arrived) /\ rx_wait \in 0..Len(arrived)
    BY DEF DriverInv, TypeOK, RxHeld
  <2>4. TypeOK'
    BY <2>1, <2>2, <2>3 DEF DriverInv, TypeOK, txVars, lineVars
  <2>5. Control'
    BY <2>1, <2>2 DEF DriverInv, Control, Receiving, Sending, txVars, lineVars
  <2>6. RxHeld' /\ HistoryOK'
    BY <2>1, <2>2, <2>3 DEF DriverInv, RxHeld, HistoryOK
  <2> QED
    BY <2>4, <2>5, <2>6 DEF DriverInv
<1>5. CASE Present
  <2>1. /\ UNCHANGED <<txVars, lineVars, history>> /\ rx_wait # 0 /\ rx_size = 0
        /\ rx_bank' = rx_wait /\ rx_wait' = 0 /\ rx_size' = arrived[rx_wait]
    BY <1>5 DEF Present
  <2>2. rx_wait \in 1..Len(arrived) /\ arrived[rx_wait] \in RxLens
    BY <2>1 DEF DriverInv, TypeOK, RxHeld
  <2>3. TypeOK'
    BY <2>1, <2>2 DEF DriverInv, TypeOK, txVars, lineVars, history
  <2>4. ~Receiving
    BY <2>1 DEF DriverInv, Control
  <2>5. Control'
    BY <2>1, <2>4 DEF DriverInv, Control, Receiving, Sending, txVars, lineVars, history
  <2>6. RxHeld' /\ HistoryOK'
    BY <2>1, <2>2 DEF DriverInv, RxHeld, HistoryOK, history
  <2> QED
    BY <2>3, <2>5, <2>6 DEF DriverInv
<1>6. CASE LinkChange
  <2>1. link' \in {0, 1} /\ flips' \in 0..Flips
    BY <1>6, EthAssumption DEF LinkChange, DriverInv, TypeOK
  <2> QED
    BY <1>6, <2>1 DEF LinkChange, DriverInv, TypeOK, Control, RxHeld, HistoryOK, Receiving, Sending,
       txVars, rxVars, history
<1> QED
  BY <1>2, <1>3, <1>4, <1>5, <1>6

(***************************************************************************)
(* Sending.                                                                *)
(***************************************************************************)

\* The frames that have left stay what they were while frames are added.
LEMMA WireKept ==
  ASSUME DriverInv, SentIntact, Len(wire) <= Len(accepted), wire' = wire,
         \/ accepted' = accepted
         \/ \E n \in TxLens : accepted' = Append(accepted, n)
  PROVE  SentIntact'
<1>1. accepted \in Seq(TxLens) /\ Len(accepted) \in Nat /\ Len(wire) \in Nat
  BY DEF DriverInv, TypeOK, HistoryOK
<1>2. Len(accepted) <= Len(accepted') /\ Len(accepted') \in Nat
      /\ \A k \in 1..Len(accepted) : accepted'[k] = accepted[k]
  BY <1>1
<1>3. \A k \in 1..Len(wire) : WireForm(k)' = WireForm(k)
  BY <1>1, <1>2 DEF SentIntact, WireForm
<1> QED
  BY <1>1, <1>2, <1>3 DEF SentIntact

\* A step that leaves the transmit side alone.
LEMMA SentFrame ==
  ASSUME DriverInv, SentInv, UNCHANGED <<txVars, accepted, wire>>,
         pc' = "out_start" => pc = "out_start" /\ out' = out
  PROVE  SentInv'
<1>1. SentIntact'
  BY WireKept DEF SentInv, SentIntact
<1>2. TxHeld' /\ Leaving'
  BY DEF SentInv, TxHeld, Leaving, HoldsFrame, txVars
<1> QED
  BY <1>1, <1>2 DEF SentInv

\* One word leaves; the last one completes a frame in the form the wire needs.
LEMMA SendWordSent ==
  ASSUME Fits, DriverInv, SentInv, SendWord
  PROVE  SentInv'
<1> DEFINE k == Len(wire) + 1
           n == accepted[k]
           sent == Append(mac_sent, bank[1 - sel][Len(mac_sent) + 1])
<1>1. /\ UNCHANGED <<bank, sel, tx_size, pc, out, accepted>> /\ mac_size # 0
      /\ IF Len(sent) = mac_size
           THEN mac_size' = 0 /\ mac_sent' = <<>> /\ wire' = Append(wire, sent)
           ELSE mac_sent' = sent /\ mac_size' = mac_size /\ wire' = wire
  BY DEF SendWord, cpuVars
<1>2. /\ wire \in Seq(Seq(Word)) /\ Len(wire) \in Nat /\ mac_sent \in Seq(Word)
      /\ accepted \in Seq(TxLens) /\ Len(accepted) \in Nat /\ mac_size \in Nat
      /\ Len(mac_sent) \in Nat
  BY EthAssumption DEF DriverInv, TypeOK, HistoryOK
<1>3. k \in 1..Len(accepted) /\ n \in TxLens
  BY <1>1, <1>2 DEF SentInv, TxHeld
<1>4. /\ mac_size = Padded(n) /\ \A p \in 1..mac_size : bank[1 - sel][p] = OutWord(k, n, p)
      /\ Len(mac_sent) + 1 <= mac_size
      /\ \A p \in 1..Len(mac_sent) : mac_sent[p] = bank[1 - sel][p]
  BY <1>1, <1>2 DEF SentInv, TxHeld, Leaving, HoldsFrame
<1>5. bank[1 - sel][Len(mac_sent) + 1] \in Word
  <2>1. Len(mac_sent) + 1 \in 1..BankWords
    BY <1>2, <1>4, EthAssumption DEF DriverInv, TypeOK
  <2>2. 1 - sel \in {0, 1} /\ bank \in [{0, 1} -> [1..BankWords -> Word]]
    BY DEF DriverInv, TypeOK
  <2> QED
    BY <2>1, <2>2
<1>6. sent \in Seq(Word) /\ Len(sent) = Len(mac_sent) + 1
      /\ \A p \in 1..Len(sent) : sent[p] = bank[1 - sel][p]
  BY <1>2, <1>4, <1>5
<1> HIDE DEF sent
<1>7. CASE Len(sent) # mac_size
  <2>1. Leaving'
    BY <1>1, <1>2, <1>4, <1>6, <1>7 DEF Leaving
  <2>2. TxHeld'
    BY <1>1, <1>7 DEF SentInv, TxHeld, HoldsFrame
  <2>3. SentIntact'
    BY <1>1, <1>7, WireKept DEF SentInv, SentIntact
  <2> QED
    BY <2>1, <2>2, <2>3 DEF SentInv
<1>8. CASE Len(sent) = mac_size
  <2>1. sent = WireForm(k)
    <3>1. sent = [p \in 1..Len(sent) |-> sent[p]]
      BY <1>6
    <3>2. \A p \in 1..mac_size : sent[p] = OutWord(k, n, p)
      BY <1>4, <1>6, <1>8
    <3> QED
      BY <1>4, <1>8, <3>1, <3>2 DEF WireForm, OutWord
  <2>2. Len(wire') = k /\ wire'[k] = sent /\ \A j \in 1..Len(wire) : wire'[j] = wire[j]
    <3>1. wire' = Append(wire, sent)
      BY <1>1, <1>8
    <3>2. /\ Len(Append(wire, sent)) = Len(wire) + 1
          /\ Append(wire, sent)[Len(wire) + 1] = sent
          /\ \A j \in 1..Len(wire) : Append(wire, sent)[j] = wire[j]
      BY <1>2, <1>6, AppendFacts
    <3> QED
      BY <3>1, <3>2
  <2>3. \A j : WireForm(j)' = WireForm(j)
    BY <1>1 DEF WireForm
  <2>4. SentIntact'
    <3>1. \A j \in 1..Len(wire') : wire'[j] = WireForm(j)
      BY <1>2, <2>1, <2>2 DEF SentInv, SentIntact
    <3> QED
      BY <1>1, <1>2, <1>3, <2>2, <2>3, <3>1 DEF SentIntact
  <2>5. TxHeld'
    <3>1. mac_size' = 0 /\ tx_size' = tx_size /\ Len(accepted') = Len(accepted)
      BY <1>1, <1>8
    <3>2. Len(accepted') = Len(wire') + (IF mac_size' # 0 THEN 1 ELSE 0)
                                      + (IF tx_size' # 0 THEN 1 ELSE 0)
      BY <1>1, <1>2, <2>2, <3>1 DEF SentInv, TxHeld
    <3>3. (tx_size # 0 => HoldsFrame(sel, Len(accepted), accepted[Len(accepted)]))'
      BY <1>1 DEF SentInv, TxHeld, HoldsFrame
    <3>4. (pc = "out_start" => HoldsFrame(sel, Len(accepted) + 1, out))'
      BY <1>1 DEF SentInv, TxHeld, HoldsFrame
    <3> QED
      BY <1>1, <3>1, <3>2, <3>3, <3>4 DEF SentInv, TxHeld
  <2>6. Leaving'
    BY <1>1, <1>8 DEF Leaving
  <2> QED
    BY <2>4, <2>5, <2>6 DEF SentInv
<1> QED
  BY <1>7, <1>8

LEMMA SentStep ==
  ASSUME Fits, PromptOrSilent, DriverInv, SentInv, Next
  PROVE  SentInv'
<1>0. /\ sel \in {0, 1} /\ bank \in [{0, 1} -> [1..BankWords -> Word]]
      /\ accepted \in Seq(TxLens) /\ Len(accepted) \in Nat /\ Len(wire) \in Nat
      /\ BankWords \in Nat /\ tx_size \in Nat /\ mac_size \in Nat
  BY EthAssumption DEF DriverInv, TypeOK, HistoryOK
<1>1. CASE \/ OutBusy \/ OutDone \/ casper_monitor_links \/ Timeouts
           \/ RxNone \/ RxDrop \/ RxAlloc \/ RxCopy \/ RxInput
           \/ Arrive \/ Present \/ LinkChange
  <2>1. UNCHANGED <<txVars, accepted, wire>>
    BY <1>1 DEF OutBusy, OutDone, casper_monitor_links, Timeouts, RxNone, RxDrop, RxAlloc, RxCopy,
       RxInput, Arrive, Present, LinkChange, history
  <2>2. pc' = "out_start" => pc = "out_start" /\ out' = out
    BY <1>1 DEF OutBusy, OutDone, casper_monitor_links, Timeouts, RxNone, RxDrop, RxAlloc, RxCopy,
       RxInput, Arrive, Present, LinkChange, cpuVars, MaySend, DriverInv, TypeOK
  <2> QED
    BY <2>1, <2>2, SentFrame
<1>2. CASE ExchangeBanks
  <2>1. /\ UNCHANGED <<bank, mac_sent, pc, out, accepted, wire>>
        /\ tx_size # 0 /\ mac_size = 0 /\ tx_size' = 0
        /\ sel' = 1 - sel /\ mac_size' = tx_size * CoreWords
    BY <1>2 DEF ExchangeBanks, cpuVars, history
  <2>2. Len(accepted) = Len(wire) + 1 /\ accepted[Len(accepted)] \in TxLens
    BY <1>0, <2>1 DEF SentInv, TxHeld
  <2>3. mac_size' = Padded(accepted[Len(accepted)]) /\ mac_size' \in 1..BankWords
    BY <2>1, <2>2, PaddedFacts DEF SentInv, TxHeld
  <2>4. 1 - sel' = sel
    BY <1>0, <2>1
  <2>5. HoldsFrame(1 - sel, Len(wire) + 1, accepted[Len(wire) + 1])'
    BY <2>1, <2>2, <2>4 DEF SentInv, TxHeld, HoldsFrame
  <2>6. TxHeld'
    BY <1>0, <2>1, <2>2, <2>3, <2>5 DEF TxHeld, DriverInv, Control
  <2>7. Leaving'
    BY <2>1, <2>3 DEF SentInv, Leaving
  <2>8. SentIntact'
    BY <2>1, WireKept DEF SentInv, SentIntact
  <2> QED
    BY <2>6, <2>7, <2>8 DEF SentInv
<1>3. CASE OutFill
  <2>1. /\ UNCHANGED <<out, sel, tx_size, mac_size, mac_sent, accepted, wire>>
        /\ tx_size = 0 /\ pc' = "out_start"
        /\ bank'[1 - sel] = bank[1 - sel]
        /\ \A p \in 1..BankWords : bank'[sel][p] =
             CASE p <= out -> mb_swapb(TxWord(Len(accepted) + 1, p))
               [] p \in (out + 1)..Padded(out) -> Zero
               [] OTHER -> bank[sel][p]
    BY <1>0, <1>3 DEF OutFill, history
  <2>2. out \in TxLens /\ out \in Nat \ {0} /\ Padded(out) \in 1..BankWords
    BY <1>3, PaddedFacts DEF OutFill, DriverInv, Control, Sending
  <2>3. HoldsFrame(sel, Len(accepted) + 1, out)'
    BY <1>0, <2>1, <2>2 DEF HoldsFrame, OutWord
  <2>4. TxHeld'
    BY <2>1, <2>3 DEF SentInv, TxHeld, HoldsFrame
  <2>5. Leaving'
    BY <2>1 DEF SentInv, Leaving
  <2>6. SentIntact'
    BY <2>1, WireKept DEF SentInv, SentIntact
  <2> QED
    BY <2>4, <2>5, <2>6 DEF SentInv
<1>4. CASE OutStart
  <2>1. /\ UNCHANGED <<out, bank, sel, mac_size, mac_sent, wire>>
        /\ pc = "out_start" /\ pc' = "out_done" /\ tx_size' = Padded(out) \div CoreWords
        /\ accepted' = Append(accepted, out)
    BY <1>4 DEF OutStart
  <2>2. out \in TxLens /\ tx_size = 0
    BY <2>1 DEF DriverInv, Control, Sending
  <2>3. /\ Len(accepted') = Len(accepted) + 1 /\ accepted'[Len(accepted) + 1] = out
        /\ \A k \in 1..Len(accepted) : accepted'[k] = accepted[k]
    BY <1>0, <2>1, <2>2
  <2>4. tx_size' # 0 /\ tx_size' * CoreWords = Padded(out)
    BY <2>1, <2>2, PaddedFacts
  <2>5. HoldsFrame(sel, Len(accepted) + 1, out)
    BY <2>1 DEF SentInv, TxHeld
  <2>6. HoldsFrame(sel, Len(accepted), accepted[Len(accepted)])'
    BY <2>1, <2>3, <2>5 DEF HoldsFrame
  <2>7. mac_size # 0 => Len(wire) + 1 \in 1..Len(accepted)
    BY <1>0 DEF SentInv, TxHeld
  <2>8. TxHeld'
    <3>1. Len(accepted') = Len(wire') + (IF mac_size' # 0 THEN 1 ELSE 0)
                                      + (IF tx_size' # 0 THEN 1 ELSE 0)
      BY <1>0, <2>1, <2>2, <2>3, <2>4 DEF SentInv, TxHeld
    <3>2. tx_size' # 0 => tx_size' * CoreWords = Padded(accepted'[Len(accepted')])
      BY <2>3, <2>4
    <3>3. mac_size' # 0 =>
            /\ mac_size' = Padded(accepted'[Len(wire') + 1])
            /\ HoldsFrame(1 - sel, Len(wire) + 1, accepted[Len(wire) + 1])'
      BY <2>1, <2>3, <2>7 DEF SentInv, TxHeld, HoldsFrame
    <3> QED
      BY <2>1, <2>6, <3>1, <3>2, <3>3 DEF TxHeld
  <2>9. Leaving'
    BY <2>1 DEF SentInv, Leaving
  <2>10. SentIntact'
    BY <2>1, <2>2, WireKept DEF SentInv, SentIntact
  <2> QED
    BY <2>8, <2>9, <2>10 DEF SentInv
<1>5. CASE RxSwap
  <2>1. tx_size = 0 /\ pc' # "out_start"
    BY <1>5, ReceivingIsPrompt DEF RxSwap, Receiving, DriverInv, Control
  <2>2. /\ UNCHANGED <<out, sel, tx_size, mac_size, mac_sent, accepted, wire>>
        /\ bank'[1 - sel] = bank[1 - sel]
    BY <1>0, <1>5 DEF RxSwap, history
  <2>3. TxHeld'
    BY <2>1, <2>2 DEF SentInv, TxHeld, HoldsFrame
  <2>4. Leaving'
    BY <2>2 DEF SentInv, Leaving
  <2>5. SentIntact'
    BY <2>2, WireKept DEF SentInv, SentIntact
  <2> QED
    BY <2>3, <2>4, <2>5 DEF SentInv
<1>6. CASE SendWord
  BY <1>6, SendWordSent
<1> QED
  BY <1>1, <1>2, <1>3, <1>4, <1>5, <1>6
  DEF Next, casper_lwip_handler, casper_rx_packet, casper_netif_output_impl

(***************************************************************************)
(* Receiving.                                                              *)
(***************************************************************************)

\* A whole frame names itself: its first word carries its number.
LEMMA WholeNames ==
  ASSUME DriverInv, NEW f \in 1..Len(arrived), NEW s, Whole(s, f)
  PROVE  s[1].frame = f
<1>1. arrived[f] \in Nat \ {0}
  <2>1. arrived \in Seq(RxLens) /\ RxLens \subseteq Nat \ {0}
    BY EthAssumption DEF DriverInv, TypeOK
  <2>2. arrived[f] \in RxLens
    BY <2>1
  <2> QED
    BY <2>1, <2>2
<1> QED
  BY <1>1, WordTypes DEF Whole

\* A step of the core, or of the driver, that gives nothing to the stack and
\* does not go on with a packet.
LEMMA ReceivedFrame ==
  ASSUME DriverInv, InputOrder, ~Receiving', input' = input, arrived' = arrived,
         pc' = "rx_input" => pc = "rx_input" /\ pbuf' = pbuf,
         rx_bank' = rx_bank, rx_size' = rx_size \/ rx_size' = 0
  PROVE  ReceivedInv'
<1>1. InPlace'
  BY DEF InPlace, Receiving
<1>2. LastIn' = LastIn
  BY DEF LastIn
<1>3. \A s, f : Whole(s, f)' <=> Whole(s, f)
  BY DEF Whole
<1>4. InputOrder'
  <2>1. LastIn' <= rx_bank' /\ (rx_size' # 0 => LastIn' < rx_bank')
    BY <1>2 DEF InputOrder
  <2>2. pc' = "rx_input" => \E f \in 1..rx_bank' : /\ Whole(pbuf, f)' /\ LastIn' < f
                                                   /\ rx_size' # 0 => f < rx_bank'
    BY <1>2 DEF InputOrder, Whole
  <2>3. (\A k \in 1..Len(input) : \E f \in 1..Len(arrived) :
          Whole(input[k], f) /\ (k > 1 => input[k - 1][1].frame < f))'
    BY DEF InputOrder, Whole
  <2> QED
    BY <2>1, <2>2, <2>3 DEF InputOrder
<1> QED
  BY <1>1, <1>4 DEF ReceivedInv

LEMMA ReceivedStep ==
  ASSUME PromptOrSilent, DriverInv, ReceivedInv, Next
  PROVE  ReceivedInv'
<1>0. /\ sel \in {0, 1} /\ bank \in [{0, 1} -> [1..BankWords -> Word]]
      /\ arrived \in Seq(RxLens) /\ Len(arrived) \in Nat /\ BankWords \in Nat
      /\ rx_bank \in 0..Len(arrived) /\ rx_wait \in 0..Len(arrived)
      /\ pbuf \in Seq(Word) /\ Len(pbuf) \in Nat
      /\ input \in Seq(Seq(Word)) /\ Len(input) \in Nat
      /\ InPlace /\ InputOrder
      /\ MaxWords \in 0..BankWords
  BY EthAssumption, LoadType DEF DriverInv, TypeOK, HistoryOK, RxHeld, ReceivedInv
<1>1. CASE \/ OutFill \/ OutBusy \/ OutStart \/ OutDone \/ casper_monitor_links \/ Timeouts
           \/ RxNone \/ RxDrop
  <2>1. /\ input' = input /\ arrived' = arrived /\ rx_bank' = rx_bank
        /\ rx_size' = rx_size \/ rx_size' = 0
    BY <1>1 DEF OutFill, OutBusy, OutStart, OutDone, casper_monitor_links, Timeouts, RxNone, RxDrop,
       rxVars, history
  <2>2. pc' \in {"links", "rx", "timeouts", "out_wait", "out_start", "out_done"}
    BY <1>1 DEF OutFill, OutBusy, OutStart, OutDone, casper_monitor_links, Timeouts, RxNone, RxDrop,
       cpuVars, MaySend, DriverInv, TypeOK
  <2>3. ~Receiving' /\ pc' # "rx_input"
    BY <2>2 DEF Receiving
  <2> QED
    BY <1>0, <2>1, <2>3, ReceivedFrame
<1>2. CASE ExchangeBanks
  <2>1. ~Receiving
    BY <1>2, ReceivingIsPrompt DEF ExchangeBanks, DriverInv, Control, Receiving
  <2>2. UNCHANGED <<pc, pbuf, input, arrived, rx_bank, rx_size>>
    BY <1>2 DEF ExchangeBanks, cpuVars, rxVars, history
  <2> QED
    BY <1>0, <2>1, <2>2, ReceivedFrame DEF Receiving
<1>3. CASE SendWord \/ LinkChange
  <2>1. UNCHANGED <<pc, i, pbuf, bank, sel, input, arrived, rx_bank, rx_size>>
    BY <1>3 DEF SendWord, LinkChange, cpuVars, txVars, rxVars, history
  <2>2. InPlace'
    BY <1>0, <2>1 DEF InPlace
  <2>3. InputOrder'
    BY <1>0, <2>1 DEF InputOrder, LastIn, Whole
  <2> QED
    BY <2>2, <2>3 DEF ReceivedInv
<1>4. CASE Arrive
  <2>1. /\ UNCHANGED <<pc, i, pbuf, bank, sel, input, rx_bank, rx_size>>
        /\ \E n \in RxLens : arrived' = Append(arrived, n)
    BY <1>4 DEF Arrive, cpuVars, txVars
  <2>2. /\ Len(arrived') = Len(arrived) + 1
        /\ \A k \in 1..Len(arrived) : arrived'[k] = arrived[k]
    BY <1>0, <2>1
  <2>3. InPlace'
    BY <1>0, <2>1 DEF InPlace
  <2>4. \A s : \A f \in 1..Len(arrived) :
          s = [p \in 1..arrived[f] |-> InWord(f, p)] =>
            s = [p \in 1..arrived'[f] |-> InWord(f, p)]
    BY <2>2
  <2>5. LastIn' = LastIn /\ 1..Len(arrived) \subseteq 1..Len(arrived')
        /\ 1..rx_bank \subseteq 1..Len(arrived)
    BY <1>0, <2>1, <2>2 DEF LastIn
  <2>6. pc = "rx_input" => \E f \in 1..rx_bank : /\ Whole(pbuf, f)' /\ LastIn < f
                                                 /\ rx_size # 0 => f < rx_bank
    BY <1>0, <2>1, <2>4, <2>5 DEF InputOrder, Whole
  <2>7. (\A k \in 1..Len(input) : \E f \in 1..Len(arrived) :
          Whole(input[k], f) /\ (k > 1 => input[k - 1][1].frame < f))'
    BY <1>0, <2>1, <2>4, <2>5, ZenonT(60) DEF InputOrder, Whole
  <2>8. InputOrder'
    BY <1>0, <2>1, <2>5, <2>6, <2>7 DEF InputOrder
  <2> QED
    BY <2>3, <2>8 DEF ReceivedInv
<1>5. CASE Present
  <2>1. /\ UNCHANGED <<pc, pbuf, input, arrived>> /\ rx_wait # 0 /\ rx_size = 0
        /\ rx_bank' = rx_wait
    BY <1>5 DEF Present, cpuVars, history
  <2>2. ~Receiving /\ rx_bank < rx_bank' /\ rx_bank' \in Nat
    BY <1>0, <2>1 DEF DriverInv, Control, RxHeld
  <2>3. InPlace'
    BY <2>1, <2>2 DEF InPlace, Receiving
  <2>4. LastIn' = LastIn
    BY <2>1 DEF LastIn
  <2>5. LastIn \in Nat
    <3>1. ASSUME input # <<>> PROVE input[Len(input)][1].frame \in Nat
      <4>1. Len(input) \in 1..Len(input)
        BY <1>0, <3>1
      <4>2. PICK f \in 1..Len(arrived) : Whole(input[Len(input)], f)
        BY <1>0, <4>1 DEF InputOrder
      <4> QED
        BY <4>2, WholeNames
    <3> QED
      BY <3>1 DEF LastIn
  <2>6. pc = "rx_input" => \E f \in 1..rx_bank' : /\ Whole(pbuf, f)' /\ LastIn < f
                                                  /\ f < rx_bank'
    BY <1>0, <2>1, <2>2 DEF InputOrder, Whole
  <2>7. (\A k \in 1..Len(input) : \E f \in 1..Len(arrived) :
          Whole(input[k], f) /\ (k > 1 => input[k - 1][1].frame < f))'
    BY <1>0, <2>1 DEF InputOrder, Whole
  <2>8. LastIn < rx_bank' /\ LastIn <= rx_bank'
    BY <1>0, <2>2, <2>5 DEF InputOrder
  <2>9. InputOrder'
    BY <2>1, <2>4, <2>6, <2>7, <2>8 DEF InputOrder
  <2> QED
    BY <2>3, <2>9 DEF ReceivedInv
<1>6. CASE RxAlloc
  <2>1. /\ UNCHANGED <<input, arrived, rx_bank, rx_size>> /\ pc' = "rx_swap" /\ i' = 1 /\ pbuf' = <<>>
    BY <1>6 DEF RxAlloc, rxVars, history
  <2>2. InPlace'
    BY <2>1 DEF InPlace
  <2>3. InputOrder'
    BY <1>0, <2>1 DEF InputOrder, LastIn, Whole
  <2> QED
    BY <2>2, <2>3 DEF ReceivedInv
<1>7. CASE RxSwap
  <2>1. /\ UNCHANGED <<input, arrived, rx_bank, rx_size, sel, pbuf>> /\ pc = "rx_swap"
        /\ bank' = [bank EXCEPT ![sel][i] = InWord(rx_bank, i)]
        /\ \/ i < rx_size /\ i' = i + 1 /\ pc' = pc
           \/ ~(i < rx_size) /\ i' = 1 /\ pc' = "rx_copy"
    BY <1>7 DEF RxSwap, rxVars, history, InWord
  <2>2. rx_size \in 1..MaxWords /\ i \in 1..rx_size /\ i \in 1..BankWords
    BY <1>0, <2>1 DEF DriverInv, Control, Receiving
  <2>3. \A p \in 1..BankWords : bank'[sel][p] = IF p = i THEN InWord(rx_bank, i) ELSE bank[sel][p]
    BY <1>0, <2>1, <2>2
  <2>4. \A p \in 1..i : bank'[sel][p] = InWord(rx_bank, p)
    BY <1>0, <2>1, <2>2, <2>3 DEF InPlace
  <2>5. pbuf = <<>>
    BY <1>0, <2>1 DEF InPlace
  <2>6. InPlace'
    BY <2>1, <2>2, <2>4, <2>5 DEF InPlace
  <2>7. InputOrder'
    BY <1>0, <2>1 DEF InputOrder, LastIn, Whole
  <2> QED
    BY <2>6, <2>7 DEF ReceivedInv
<1>8. CASE RxCopy
  <2>1. /\ UNCHANGED <<input, arrived, rx_bank, bank, sel>> /\ pc = "rx_copy"
        /\ pbuf' = Append(pbuf, bank[sel][i])
        /\ \/ i < rx_size /\ i' = i + 1 /\ pc' = pc /\ rx_size' = rx_size
           \/ ~(i < rx_size) /\ pc' = "rx_input" /\ rx_size' = 0
    BY <1>8 DEF RxCopy, txVars, history
  <2>2. rx_size \in 1..MaxWords /\ i \in 1..rx_size /\ i \in 1..BankWords
        /\ rx_bank \in 1..Len(arrived) /\ rx_size = arrived[rx_bank]
    BY <1>0, <2>1 DEF DriverInv, Control, RxHeld, Receiving
  <2>3. /\ pbuf' \in Seq(Word) /\ Len(pbuf') = i
        /\ \A p \in 1..i : pbuf'[p] = InWord(rx_bank, p)
    <3>1. /\ bank[sel][i] = InWord(rx_bank, i) /\ bank[sel][i] \in Word /\ Len(pbuf) = i - 1
          /\ \A p \in 1..Len(pbuf) : pbuf[p] = InWord(rx_bank, p)
      BY <1>0, <2>1, <2>2 DEF InPlace
    <3> QED
      BY <1>0, <2>1, <2>2, <3>1
  <2>4. CASE i < rx_size
    <3>1. InPlace'
      BY <1>0, <2>1, <2>2, <2>3, <2>4 DEF InPlace
    <3>2. InputOrder'
      BY <1>0, <2>1, <2>4 DEF InputOrder, LastIn, Whole
    <3> QED
      BY <3>1, <3>2 DEF ReceivedInv
  <2>5. CASE ~(i < rx_size)
    <3>1. InPlace'
      BY <2>1, <2>5 DEF InPlace
    <3>2. Whole(pbuf, rx_bank)'
      <4>1. i = arrived[rx_bank]
        BY <2>2, <2>5
      <4>2. pbuf' = [p \in 1..Len(pbuf') |-> pbuf'[p]]
        BY <2>3
      <4> QED
        BY <2>1, <2>3, <4>1, <4>2 DEF Whole
    <3>3. rx_size # 0 /\ rx_bank \in 1..rx_bank /\ LastIn < rx_bank /\ LastIn' = LastIn
          /\ LastIn <= rx_bank
      <4>1. rx_size # 0 /\ rx_bank \in 1..rx_bank
        BY <1>0, <2>2
      <4>2. LastIn' = LastIn
        BY <2>1 DEF LastIn
      <4> QED
        BY <1>0, <4>1, <4>2 DEF InputOrder
    <3>4. (\A k \in 1..Len(input) : \E f \in 1..Len(arrived) :
            Whole(input[k], f) /\ (k > 1 => input[k - 1][1].frame < f))'
      BY <1>0, <2>1 DEF InputOrder, Whole
    <3>5. InputOrder'
      BY <2>1, <2>5, <3>2, <3>3, <3>4 DEF InputOrder
    <3> QED
      BY <3>1, <3>5 DEF ReceivedInv
  <2> QED
    BY <2>4, <2>5
<1>9. CASE RxInput
  <2>1. /\ UNCHANGED <<arrived, rx_bank, rx_size>> /\ pc = "rx_input"
        /\ input' = Append(input, pbuf) /\ pc' \in {"rx", "out_wait"}
    BY <1>9 DEF RxInput, MaySend, rxVars
  <2>2. InPlace'
    BY <2>1 DEF InPlace
  <2>3. PICK f \in 1..rx_bank : Whole(pbuf, f) /\ LastIn < f /\ (rx_size # 0 => f < rx_bank)
    BY <1>0, <2>1 DEF InputOrder
  <2>4. f \in 1..Len(arrived)
    BY <1>0
  <2>5. pbuf[1].frame = f
    BY <2>3, <2>4, WholeNames
  <2>6. /\ Len(input') = Len(input) + 1 /\ input'[Len(input) + 1] = pbuf
        /\ \A j \in 1..Len(input) : input'[j] = input[j]
    <3>1. /\ Len(Append(input, pbuf)) = Len(input) + 1
          /\ Append(input, pbuf)[Len(input) + 1] = pbuf
          /\ \A j \in 1..Len(input) : Append(input, pbuf)[j] = input[j]
      BY <1>0, AppendFacts
    <3> QED
      BY <2>1, <3>1
  <2>7. LastIn' = f
    <3>1. input' # <<>>
      <4>1. Len(input') # 0 /\ Len(<<>>) = 0
        BY <1>0, <2>6
      <4> QED
        BY <4>1
    <3> QED
      BY <2>5, <2>6, <3>1 DEF LastIn
  <2>8. Len(input) > 0 => input[Len(input)][1].frame = LastIn
    BY <1>0 DEF LastIn
  <2>9. ASSUME NEW k \in 1..Len(input')
        PROVE  \E g \in 1..Len(arrived') :
                 Whole(input[k], g)' /\ (k > 1 => input'[k - 1][1].frame < g)
    <3>1. CASE k \in 1..Len(input)
      <4>1. PICK g \in 1..Len(arrived) : Whole(input[k], g) /\ (k > 1 => input[k - 1][1].frame < g)
        BY <1>0, <3>1 DEF InputOrder
      <4>2. input'[k] = input[k] /\ (k > 1 => input'[k - 1] = input[k - 1])
        <5>1. k > 1 => k - 1 \in 1..Len(input)
          BY <1>0, <3>1
        <5> QED
          BY <2>6, <3>1, <5>1
      <4> QED
        BY <2>1, <4>1, <4>2 DEF Whole
    <3>2. CASE k = Len(input) + 1
      <4>1. input'[k] = pbuf /\ (k > 1 => input'[k - 1] = input[Len(input)] /\ Len(input) > 0)
        <5>1. k > 1 => k - 1 = Len(input) /\ Len(input) \in 1..Len(input) /\ Len(input) > 0
          BY <1>0, <3>2
        <5> QED
          BY <2>6, <3>2, <5>1
      <4> QED
        BY <2>1, <2>3, <2>4, <2>8, <4>1 DEF Whole
    <3>3. k \in 1..Len(input) \/ k = Len(input) + 1
      <4>1. Len(input) \in Nat /\ k \in 1..(Len(input) + 1)
        BY <1>0, <2>6
      <4> QED
        BY <4>1
    <3> QED
      BY <3>1, <3>2, <3>3, Zenon
  <2>10. LastIn' <= rx_bank' /\ (rx_size' # 0 => LastIn' < rx_bank')
    BY <1>0, <2>1, <2>3, <2>7
  <2>11. InputOrder'
    BY <2>1, <2>9, <2>10 DEF InputOrder
  <2> QED
    BY <2>2, <2>11 DEF ReceivedInv
<1> QED
  BY <1>1, <1>2, <1>3, <1>4, <1>5, <1>6, <1>7, <1>8, <1>9
  DEF Next, casper_lwip_handler, casper_rx_packet, casper_netif_output_impl

(***************************************************************************)
(* The theorems.                                                           *)
(***************************************************************************)
LEMMA StutterEth ==
  ASSUME DriverInv, SentInv, ReceivedInv, UNCHANGED vars
  PROVE  DriverInv' /\ SentInv' /\ ReceivedInv'
<1> USE DEF vars, cpuVars, txVars, rxVars, lineVars, history
<1>1. DriverInv'
  BY DEF DriverInv, TypeOK, Word, Control, Receiving, Sending, RxHeld, HistoryOK
<1>2. SentInv'
  BY SentFrame
<1>3. ReceivedInv'
  BY DEF ReceivedInv, InPlace, InputOrder, LastIn, Whole
<1> QED
  BY <1>1, <1>2, <1>3

\* No loop of the driver leaves a bank and every register stays in its range:
\* the inductive invariant of the driver and the core, for every number and
\* length of frames.
THEOREM EthInvariant ==
  ASSUME Fits, PromptOrSilent
  PROVE  Spec => [](DriverInv /\ SentInv /\ ReceivedInv)
<1>1. Init => DriverInv /\ SentInv /\ ReceivedInv
  <2> SUFFICES ASSUME Init PROVE DriverInv /\ SentInv /\ ReceivedInv
    OBVIOUS
  <2>1. DriverInv
    BY DriverInit
  <2>2. SentInv
    BY DEF Init, SentInv, TxHeld, Leaving, SentIntact
  <2>3. ReceivedInv
    BY DEF Init, ReceivedInv, InPlace, InputOrder, LastIn
  <2> QED
    BY <2>1, <2>2, <2>3
<1>2. DriverInv /\ SentInv /\ ReceivedInv /\ [Next]_vars => (DriverInv /\ SentInv /\ ReceivedInv)'
  BY DriverCpuStep, DriverCoreStep, SentStep, ReceivedStep, StutterEth DEF Next
<1> QED
  BY <1>1, <1>2, PTL DEF Spec

\* The driver's loops stay within a bank and the registers in their ranges.
THEOREM EthTypes ==
  ASSUME Fits, PromptOrSilent
  PROVE  Spec => []TypeOK
<1>1. DriverInv => TypeOK
  BY DEF DriverInv
<1> QED
  BY <1>1, EthInvariant, PTL

\* The frames on the wire are the accepted ones, in order, each intact and
\* padded with zeros, although the receive path writes the same bank.
THEOREM FramesSentIntact ==
  ASSUME Fits, PromptOrSilent
  PROVE  Spec => []SentIntact
<1>1. SentInv => SentIntact
  BY DEF SentInv
<1> QED
  BY <1>1, EthInvariant, PTL

\* Every packet given to the stack is one that arrived, complete, once and in
\* order, although it went through the transmit bank.
THEOREM FramesReceivedIntact ==
  ASSUME Fits, PromptOrSilent
  PROVE  Spec => []ReceivedIntact
<1>1. DriverInv /\ ReceivedInv => ReceivedIntact
  <2> SUFFICES ASSUME DriverInv, ReceivedInv, NEW k \in 1..Len(input)
               PROVE  LET f == input[k][1].frame
                      IN /\ input[k] = [p \in 1..arrived[f] |-> mb_swapb(RxWord(f, p))]
                         /\ k > 1 => input[k - 1][1].frame < f
    BY DEF ReceivedIntact
  <2>1. PICK f \in 1..Len(arrived) : Whole(input[k], f) /\ (k > 1 => input[k - 1][1].frame < f)
    BY DEF ReceivedInv, InputOrder
  <2>2. input[k][1].frame = f
    BY <2>1, WholeNames
  <2> QED
    BY <2>1, <2>2 DEF Whole, InWord
<1> QED
  BY <1>1, EthInvariant, PTL
=============================================================================
