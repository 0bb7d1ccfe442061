# A verification project for the JAM firmware of mlib_devel

`mlib_devel` is the CASPER collaboration's toolflow for FPGA instruments. Most
of the repository is HDL, Simulink libraries and vendor output. The program
that runs for years on a telescope's boards is **JAM**
(`src/jasper_library/sw/jam`): bare-metal C on a MicroBlaze soft processor that
answers TFTP requests over 10 GbE, through which operators read and write FPGA
registers, write configuration flash and reboot the FPGA. It has the hard
behaviour of this repository: one TFTP session shared by all clients, lossy
UDP, a polled main loop, timers on a clock that wraps, hardware that runs beside
the processor, and flash memory that a mistake spoils. This project models JAM
and what it touches: the CPU port of the 10 GbE core, the software registers,
the layout of the register space by the toolflow and the bus that decodes it.

Paths below are relative to `src/jasper_library/sw/jam` unless they start
with `src/`.

## 1. Inventory

| Part | State | Operations | Correct when |
|---|---|---|---|
| TFTP server, `lwip/src/apps/tftp/tftp_server.c` | one `tftp_state`: handle, peer, block number, retained packet, timer, retries | `recv`, `send_data`, `resend_data`, `send_ack`, `close_handle`, `tftp_tmr`, `tftp_init` | blocks stored once and in order; only stored blocks acknowledged; a dead session ends |
| TFTP callbacks, `casper_tftp.c` | the read and write pointers of the context | open by name, close, init | closed sessions leave no callback behind |
| TAPCP handlers, `casper_tapcp.c` | `tapcp_state` and static variables that live from block to block | openers, readers and writers of `/dev`, `/fpga`, `/cpu`, `/flash`, `/flashcmd`, `/listdev`, `/temp`, `/progdev` | the blocks of a transfer put together are what was asked for |
| Flash and SPI, `flash.c`, `spi.c` | the chip: contents, write enable, address mode, busy, selected | enter and exit 4-byte mode, erase, write page, read | an acknowledged byte is in flash; other sectors are untouched; the chip gets over a fault |
| Timeout list, `lwip/src/core/timeouts.c` | a list of relative times, a pool | `sys_timeout`, `sys_untimeout`, `sys_check_timeouts` | no timer lost, none early, none late for ever |
| Clock, `tmrctr.c` | a 64-bit counter in two registers | `read_tmrctr`, `tick_tmrctr`, `ms_tmrctr` | a read is a time of the call; time does not run back |
| MAC driver and main loop, `casper_eth.c` | `ifstate`, the check time | output, receive, link monitor, handler | frames intact in both directions; neither direction stops the other |
| 10 GbE core, CPU port, `src/jasper_library/hdl_sources/kat_ten_gb_eth` | two buffers in each direction, sizes, handshake bits in two clock domains | exchange buffers, send, receive | a frame crosses whole and once; a frame that waits is shown |
| Compact sorted list, `csl.c`, `casper_devcsl.c`, `util/cit2csl.py` | the list, a static iterator | encode, find by name, by type, iterate | finds exactly what is in the list |
| Register space, `src/jasper_library/verilog.py`, `toolflow.py`, `hdl_sources/wbs_arbiter` | addresses and slave numbers | lay out, write the table, decode an address | an access by name arrives at the device of that name |
| Software registers, `src/jasper_library/hdl_sources/wb_register_*` | a word and a handshake in two clock domains | write, sample, show | no torn word; the last word arrives |
| ICAP, `icap.c`; start-up, `main.c`, `platform.c` | none that lasts | straight-line sequences | |
| Rest of the Python toolflow, `src/jasper_library/*.py` | a design being compiled | stages run once in order | |

How they interact: `main` calls `casper_lwip_handler` for ever. It looks at the
link, drains the MAC's receive bank into lwIP (which calls `recv` of the TFTP
server, which calls a TAPCP handler, which calls the flash driver or touches
FPGA memory, all before the call returns), and every 10 ms calls
`sys_check_timeouts` (which calls `tftp_tmr` and lwIP's cyclic timers). There
are no threads and no interrupts. The concurrency is between the processor and
the clients, the network, the counter, the Ethernet core, the flash chip and
the gateware that changes registers. The Ethernet core and the registers have a
clock of their own, which the bus does not share.

`PROJECT.json` lists the components with their status, and the hazards: the
places where this code can go wrong in a way a test would hardly reach.

## 2. Modules

| Module | Models | Composition |
|---|---|---|
| `TftpServer` | the server; a handler is one action since it runs to completion | used by `TftpSystem` |
| `TftpSystem` | server, channels and clients | extends `TftpServer` |
| `FileTransfer` | what the server promises: one owner, files that grow block by block | instanced by `TftpSystem` |
| `TftpProofs` | theorems: types, sessions, writes, the refinement, reads | extends `TftpSystem` |
| `Timeouts`, `TimeoutsProofs` | clock, timeout list and main loop; the pool's theorem | |
| `TmrCtr`, `TmrCtrProofs` | the two-register read, and its theorems | |
| `CasperEth`, `CasperEthProofs` | driver and core, exchanges of buffers atomic; theorems | |
| `TgePort`, `TgePortProofs` | the core's CPU port clock edge by clock edge, with the driver's accesses; the transmitter's theorem | |
| `Flash`, `FlashProofs` | TAPCP flash handlers, driver, SPI, chip; theorems | |
| `TapcpOpen` | requests, openers and their arithmetic; what a request asks for | used by `TapcpRead` |
| `TapcpRead` | the memory readers over live memory | extends `TapcpOpen` |
| `TapcpWrite` | the memory writers, beside the readers they share state with | extends `TapcpRead` |
| `TapcpProofs` | theorems: transfers of memory | extends `TapcpWrite` |
| `Csl` | the compact sorted list: encoder, searches, iterator | used by `Devices` |
| `Devices` | a device from the layout to the bus: toolflow, list, lookup, listing, arbiter | extends `Csl` |
| `SwRegister`, `SwRegisterProofs` | the two software registers between two clocks, and their theorems | |
| `MCTftp`, `MCTimeouts`, `MCEth`, `MCTapcp`, `MCDevices`, `MCTgePort` | instances for TLC | |

### TftpServer, TftpSystem, FileTransfer

The variables are the fields of `tftp_state` under their own names, with two
changes. `addr` and `port` are set together and are one `peer`. `timer` and
`last_pkt` are used only through their difference, so the model keeps `idle`,
cut off one tick above the timeout, where the code no longer tells values apart.
`armed` counts the `tftp_tmr` entries in the timeout list: more than one can
exist, because `recv` arms the timer before the open may be refused and
`close_handle` cancels only one. `ctxfn` is the callback in `casper_tftp.c`.

`recv` is split into one action per path: a foreign packet, a request while
busy, one that is refused, write and read requests, a duplicate block, a block
written, a write that fails, an acknowledgement, the last acknowledgement, and
the packets that are rejected. `tftp_tmr` has one per outcome. `casper_tftp_init`
may happen at any time, because the interface's status callback runs it when an
address is assigned.

A block is its index and a file has `FileLen` blocks of which only the last is
short. Block numbers are modulo `BlkMod`, and the comparison in the duplicate
test is done on integers, as C's promotion does it. The channels lose packets
and keep order. The client is external: a lock-step TFTP program that resends
on a timeout and fails on an error. It uses a fresh port for each transfer.

`FileTransfer` has four steps: acquire, store the next block, learn that a block
is stored, release. `ImplementsFileTransfer` maps the owner to `peer`, the files
to what was stored, and what a client knows to the acknowledgements it has
seen.

### Timeouts

The list is a sequence of entries with relative times, and `sys_timeout`,
`sys_untimeout` and `sys_check_timeouts` are translated with u32 arithmetic
(`TickMod`). The clock ticks beside the loop, at most `LoopTicks` ticks in one
step of it; three ticks are a millisecond, so `ms_tmrctr` wraps at a third of
the range. Handling one expired entry is one step, and the clock runs between
them. The pool has as many entries as the build configures cyclic timers
(`opt.h`), and `sys_timeouts_init` starts all but the first, as the code does.
`age` is a ghost: milliseconds since an entry was armed. A behaviour is with or
without transfers (`transfers`).

### TmrCtr

`read_tmrctr` is four register reads, and the counter may count between any two
of them. `ReadBound` is the number of cycles a call may last: below the period
of the lower register, as 2^32 cycles are on the board.

### CasperEth

A word is its origin and whether its bytes are swapped. The receive path writes
its words into the transmit bank one at a time and reads them back one at a
time, so the core may exchange banks between any two. A thousand polls of a
register that must become zero have two outcomes: the register was seen at
zero, or the driver gave up. A behaviour has a `load`: whether giving up can
happen, and how many frames go each way.

The core keeps one bank for the processor and one for the wire in each
direction. A frame that arrives while one is waiting is dropped, as in
`tge_rx.v`. The crossing of clock domains is atomic in this model.

### Flash

A driver function maps the chip's state to its state after the SPI commands the
function sends, one `send_spi` after the other: into an open transaction a
command is lost, on a stalled core it leaves the transaction open. A stall may
meet any command of a driver call; a page program it meets is carried out, with
garbage, when the transaction is closed at last. The write
handler's loop is `WriteBlock` (a block comes), one `WritePage` per page, with the
erase of a new sector in front of it, and `WriteReturn`; nothing else runs before
it returns. The chip is external and does what the
driver relies on: writes need the latch, the latch drops after each write,
addresses are four bytes only in 4-byte mode, programming only clears bits.
Bytes are origins, so that a byte of the wrong transfer or place is seen.

Four variables only observe. `stalls` counts the stalls, to bound them.
`disturbed` says that the transfer under way met a stall or found the chip not at
rest, as an earlier fault left it. `spi` says whether the last user of the SPI core
was a driver function, one that met a stall, or a flash command, and `last` which
kind of transfer was completed last.

### TapcpOpen, TapcpRead, TapcpWrite

A request is a record of what the openers find in a name: command, device,
offset, length, direction, mode. The openers are functions from a request to a
refusal or to `ptr` and `nleft`, in unsigned arithmetic modulo `AddrMod`, with
`nleft` read back as a signed number; `Start`, `Extent` and `Region` say in exact
arithmetic what the request asks for.

Every pass of a reader's loop is a step and the gateware may change memory
between them. A writer takes one byte in a step. `nleft`, `lidx`, `u32`, the line
buffer, which readers and writers share, and the static words are kept as in the
code. The digits of one datum that is read are one character. A byte that is
uploaded is its place in the upload and, in ASCII, one of five kinds of
character; a stored word is the sequence of the bytes or digits it was made of.
`LineWords` is the documented format of a line, written down independently of
the parser, whose loop over a line is the recursive function in `ProcessLine`.

### Csl, Devices

A list is the sequence of bytes `cit2csl.py` writes, with one byte for each field
of a payload, and the searches of `csl.c` walk over it byte by byte. They are
recursive operators that only TLC uses. `Devices` runs a design through its
life: the two passes of `wb_compute` over the instances in any order (the code's
is that of the blocks' names), the table, the list, the start of the firmware,
which looks for an Ethernet core with the static iterator, and listings with the
same iterator, given up at any block. `Selected` and `Route` are the address
decoder.

### SwRegister, TgePort

A state is the flip-flops of the modules under their own names. A step is an
edge of one clock, of the other or of both. When both tick, a flip-flop that
samples a bit of the other domain gets its old or its new value, and a word
that changes under the sample comes out `Torn` (a size: as any number).
Metastability beyond that is what the synchronising pairs are for and is not
modelled.

In `SwRegister` the design's clock may be slower than the bus by a factor of
`MaxBus`, or faster without limit, and the processor writes at most every
`WriteGap` bus cycles. In `TgePort` at least one edge of the MAC's clock lies in
every cycle of the CPU's, and the driver makes one bus access at a time with any
number of cycles in between. A word of a frame carries the frame's number, its
place and the frame's length. The fabric's frames are the state `APP`, in which
the transmitter is busy for as long as it likes.

## 3. Runs

| Run | Question | Result |
|---|---|---|
| `tftp` | A writer and a reader, one session, lossy channels, resends, write failures, restarts of the server | passes: exactly once, in order, acknowledged only if stored; implements `FileTransfer` |
| `tftp_abandoned` | Does a dead client's session end while another keeps asking, and when there is no memory to send? | passes (liveness) |
| `timeouts` | Transfers that arm, leak and cancel the timer, and the cyclic timers alone, before the clock wraps | passes |
| `timeouts_wrap` | Are timeouts checked for ever? | **violated**: not after the millisecond clock wraps |
| `tmrctr` | Two-register reads of a running counter | passes |
| `eth` | Driver and core in both directions, link changes; a slow core that only sends | passes (safety and liveness) |
| `tge_port` | Do frames, sizes and acknowledgements cross the clocks whole and once? | passes (safety and liveness) |
| `flash` | Writes, reads and commands, abandoned or not, closed or not, in any order, on an SPI core that may stall | passes: a fault spoils the transfer it meets or the one behind it, and nothing later |
| `tapcp` | Reads and uploads of every kind of request, one after the other and abandoned, words and lines that straddle blocks | passes |
| `tapcp_text` | Uploads of lines without labels | **violated**: the line before is stored again |
| `devices` | Does an access by name arrive at the device? Is exactly what exists found and listed? | passes |
| `registers` | Are words torn or lost between the clocks? | passes (safety and liveness) |

Each violated run checks one statement of a comment in the source, quoted under
`findings`.

### Conditions of the passing runs

A passing run says something only about the inputs it includes:

- `tftp` has files of two blocks and three block numbers, so numbers do not wrap.
  The invariant it checks is proved for every size (section 4). It has memory
  for every packet, and `tftp_abandoned` has not. With both a repeated request and
  a failed allocation, a block of a first session that is delayed until the
  repeated request has opened a second one is acknowledged into the second, which
  then sends its first block as number two: the reader gets the first block
  twice, and `ReadInOrder` fails.
- `timeouts` stops the clock at `Horizon`, before it wraps.
- `eth` assumes a core that frees its bank within a thousand polls, or one that
  receives nothing. At 10 Gbit/s a frame lasts about a microsecond and a
  thousand bus reads far longer, so the first is the normal case.
- `tge_port` assumes that the MAC's clock (156.25 MHz) is faster than the bus: the
  acknowledgement of a packet is a pulse of one bus cycle when nothing is being
  sent (`wb_attach.v:203`). The driver leaves at least `Pause` = 5 bus cycles
  between an acknowledgement and its next look at the size; with 4, `RxWhole`
  fails, because the old size is still shown. The driver passes the packet to the
  stack, or prints a message, in between, which takes hundreds. A frame the
  core bypasses (too long for the buffer, or begun while another waits and ended
  after the exchange) is the last of its behaviour, because `RxWhole` fails for
  the frame behind it (deviations below).
- `flash` has every fault of the SPI transactions: commands that are not closed
  (`CmdLens` has one that is closed and two that are not), abandoned commands and a
  stall in any command of any driver call. `Recovers` holds of all of them.
  `StoredAsSent`, `ReadsBack` and `OthersUntouched` are stated of transfers that are
  not `disturbed`: those that met a fault do store or read something else
  (deviations below). Write requests start at sector boundaries, which the
  opener enforces.
- `tapcp` states what is sent and stored for *sensible* requests: the offset is
  in the region and the end of a read can be written in 32 bits. Of the others
  `OwnMemory` says that a read past the end of its device without a length (`PastEnd`)
  sends nothing. The rest, uploads past the end and reads whose sum wraps, are
  opened, read and written in the run too and leave the device, so nothing is
  claimed of them. `Complete` is about lengths that are positive as an int. ASCII
  uploads
  have a label and a datum on every line, as the readers write them;
  `tapcp_text` drops that.
- `devices` states `ReachesOwner` for designs whose requested offsets ascend in
  the order the instances are found and do not overlap.
- `registers` has writes at least 17 bus cycles apart for a design at least half
  as fast as the bus. The smallest gap for which `Arrives` holds is 11 cycles for
  `MaxBus` = 1 and 17 for 2. A write over the network takes many thousand.

### Deviations without a run of their own

The models show more disagreements between code and comments, and behaviours
that users should know. Each is reproduced by changing a constant or a property
of a run, as said.

- *Block numbers that wrap* (`tftp_server.c:302`). The duplicate test compares a
  `u16_t` with an `int`: after block 65535 the expected number is 0, and the
  duplicate of the block before is stored again. `FileLen = 5` and `BlkMod = 4`
  in `MCTftp.cfg` break `WrittenOnceInOrder`.
- *Flash commands that stay open* (`casper_tapcp.c:794`). The test whether a reply
  is complete compares the bytes returned with the room *left*, so one whose last
  block is half full or more never closes its SPI transaction, and the next flash
  command is lost: the one that enables writes, so that the chip does not enter
  4-byte mode, the first sector is not erased and its pages are programmed over
  what it held. The upload is acknowledged all the same. `StoredAsSent` without
  `~disturbed` and with `MaxStalls = 0` shows it in five steps.
- *The end of a hex dump* (`casper_tapcp.c:708`). The ASCII readers stop when no
  byte is left to format: a last line that straddles two blocks is cut off.
  `AsciiComplete` fails in `MCTapcp.cfg`.
- *Requests that wrap* (`casper_tapcp.c:1359`, `:1369`). Offset and length are
  added in 32 bits, so a read whose sum wraps passes the check and starts past
  the device. A read past the end without a length is opened with a negative
  `nleft`, which the readers take for the end of the file: it is empty and no
  error (a conjunct of `OwnMemory`). For an upload past the end the negative `nleft`
  means "no bound", and it is stored behind the device. The comments promise a
  bound only "if non-negative". Without `Sensible` in `Uploading`, `OwnMemory` fails
  with the first word of such an upload.
- *The end of a binary upload* (`casper_tapcp.c:976`). The last one to three bytes
  of an upload that is not a multiple of four are acknowledged and never stored.
- *Requested offsets* (`verilog.py:693`, with a TODO at 668). Slave numbers follow
  the order in which instances are found and address ranges that of the
  addresses, so two devices that request offsets in the other order answer for
  each other. With `Designs <- PairDesigns` in `MCDevices.cfg`,
  `RequestedReached` fails.
- *Bypassed frames* (`tge_rx.v:315-323`). The roll-back after a frame too long for
  the buffer ("got unsuitable frame, rolling back...") is followed by a test that
  overrides it: an empty buffer is swapped in, its ready bit stays set, and the
  size of the next frame reaches the CPU unguarded. `Loads` with `<<5, 1>>` in
  `MCTgePort` breaks `RxWhole`. The same happens with frames of ordinary length,
  when one begins while another waits for the CPU's buffer and ends, valid, after
  the exchange: `<<1, 1, 2, 1>>` breaks `RxWhole` too. Of a frame of exactly 256 words the last is left
  out of the size; the driver drops frames of that length anyway.
- *Initial values of software registers* (`wb_register_ppc2simulink.v:48`). Reset
  sets the buffer to `INIT_VAL` without starting a handshake, so the design sees
  the configuration value of its own flip-flops until the first write, while the
  processor reads `INIT_VAL`.
- *Writes in close succession* (`wb_register_ppc2simulink.v:59`). Below the gap
  given above the end of one handshake cancels the request of the next write: the
  processor reads back the new word and the design keeps the old. With
  `MaxBus` = 2 and a gap of 12 or less, words are torn as well.
- *Receive path and queued frame* (`casper_eth.c:486`). `casper_netif_output`
  returns with the frame still queued when the core has not taken it after a
  thousand polls, and `casper_rx_packet` then byte-swaps a packet into the same
  bank. The comment at line 478 says the bank "is unused by the time we get
  here". A load `[prompt |-> FALSE, send |-> 2, recv |-> 1]` in `MCEth` breaks
  `SentIntact`.
- *Timers put off* (`lwip/src/core/timeouts.c:239`). A timeout armed at the head
  of the list is given `msecs + diff`, but the old head gives up only `msecs`, so
  all others are late by `diff`, and cancelling the new one hands them its whole
  time. Short transfers repeat it. Without `~transfers` in `ExpiresInTime` and
  with a `Horizon` of 90, the property fails.
- *ARP's timer* (`lwip/src/core/timeouts.c:179`). `sys_timeouts_init` skips entry
  0 as TCP's, and this build has no TCP (`jam_lwip/include/lwipopts.h:285`):
  entry 0 is `etharp_tmr`, which "should be called every ARP_TMR_INTERVAL
  milliseconds" (`lwip/src/core/ipv4/etharp.c:187`) and never is. The pool has one
  entry per configured timer, so TFTP's timer has an entry only because ARP's
  is not started: starting all timers without enlarging the pool breaks
  `TimersSurvive`, and is the mutant of that property.
- *Stalled SPI core* (`flash.c:166`). `flash_erase_sector` ignores what `send_spi`
  returns and reports the sector as erased; the comment at line 130 says it
  returns 0 for failure, and line 164 leaves the check for later. The page is
  programmed over what the sector held and the block is acknowledged:
  `StoredAsSent` without `~disturbed` fails with the first page of an upload.
  `Recovers` says how far the damage goes: the first driver call behind the stall
  meets the open transaction, and from then on the chip is at rest again.

### Bounds

Sizes are the smallest in which the boundary of each kind is met. A flash has
two sectors of three pages and blocks of two pages, so an image crosses blocks in
a sector and a sector in a block; three transfers give a write over an abandoned
write followed by a read, or a fault, the transfer it spoils and one behind. One
stall may meet any command of any of them (the run passes with two as well, and
with sectors of four pages, in more time). `MaxCommands` = 24 is what a page with
its erase sends, the longest call. A TAPCP block is three characters against words of four
bytes and lines of four characters, so words and lines straddle blocks in every
phase; the address space has 128 bytes, of which the FPGA's 24 lie at the upper
half, with a read-only register of one word between two devices; two transfers,
each of which may be abandoned, show what the first leaves in the static
variables. A counter register has six values and a read lasts up to five cycles,
so a carry falls between any two reads. A bank has four words against frames of
one and three words to send (one padded, one rounded up) and of two, four and six
to receive (short, full, too large). Two frames in each direction let a frame be
queued behind another and one be held back by the core. In `TgePort` three
frames of two lengths arrive, good or bad, and two of two lengths leave, so that
both buffers are used twice in both directions. A design has up to three
devices, with registers of their own and names of which some begin or continue
others. Two words are enough in `SwRegister`: a torn word is a value of its own.
A channel of one or two packets holds a packet and its duplicate. A cap that is
reached only disables more of the same (frames, transfers, ticks); a full channel
drops the packet, as the network may.

`CHECK_DEADLOCK FALSE` is set for `Flash`, `TapcpWrite` and `Devices` only: they
stop when the last transfer or listing is done.

### Fairness

- `TftpSystem`: weak fairness of `recv` for each client's delivered packets and
  of `tftp_tmr`. The main loop polls the MAC and the timeouts for ever and never
  blocks. For the timer this holds until the millisecond clock wraps: from then
  on `timeouts_wrap` shows that no timer fires, so `AbandonedSessionEnds` is a
  statement about the first sixteen days of uptime. Clients and the network are
  not fair at all.
- `Timeouts`: weak fairness of the loop and of the clock.
- `CasperEth`: weak fairness of the loop as a whole (it is sequential, so one of
  its steps is always next), of the core's exchange of banks, of the transmitter
  and of the presentation of a received frame. No fairness for arrivals or for
  what the stack chooses to send.
- `SwRegister`: both clocks tick for ever, alone or together. The processor need
  never write, and the design may show what it likes.
- `TgePort`: both clocks tick for ever and do not coincide for ever (they come
  from different oscillators); the processor goes on with its program (strong
  fairness, because an edge of its clock comes in turn with one of the MAC's);
  the MAC ends a frame of the fabric and asks for the first word of one of the
  CPU. None for arrivals.

### Mutants

Each property of a passing run has a mutant: the definition it names, changed
as a plausible bug would change it (a guard dropped, a reset forgotten, an
acknowledgement missing), with which the run fails. They are the definitions
introduced by "Mutant:" in the modules and are used for nothing else.

## 4. Proofs

All for every value of the constants that satisfies the named assumptions.

- **`TypeCorrect`** (`TftpProofs`): `Spec => [](TypeOK /\ ClientCoherent)`. The
  type invariant alone is not inductive: that a client's count stays within the
  file needs that a writer stops at the last block, `ClientCoherent`.
- **`SessionCoherence`** (`TftpProofs`): an open session always has a peer and an
  armed timer, a closed one no retained packet and no callback. It rests on the
  lemma that `sys_timeout` leaves at least one timer armed when the pool has a
  free entry for TFTP (`TmrSlots >= 1`).
- **`WriteInvariant`, `ExactlyOnce`, `AckImpliesStored`** (`TftpProofs`),
  for `FileLen < BlkMod`. That stored blocks are in order is not inductive: a
  packet in flight could be any old block. `WriteInv` adds that the packets from
  a writer are in non-decreasing order between the last stored block and the
  one after the last acknowledged; that the answers on their way back
  acknowledge only stored blocks; that what is stored is at most one block ahead
  of what is acknowledged; and that an open write session expects exactly the
  block after the last one stored. Order in the channel is what makes it
  inductive, and the bound on `FileLen` is needed: without it a duplicate is
  stored twice (section 3).
- **`Refinement`** (`TftpProofs`), for `FileLen < BlkMod`:
  `Spec => ImplementsFileTransfer`. Every step is matched with the abstract step
  it takes: a granted request acquires, a written block is the owner's next one
  and the short one releases, a taken acknowledgement is of a stored block, a
  timeout or an error releases, and everything else changes nothing. The facts
  that make the match are `SessionCoherent` (a request is granted only when
  nobody is the peer) and `WriteInv`. The runs have one writer; this theorem is
  where several writers compete for the board.
- **`ReadOrder`** (`TftpProofs`): `Spec => []ReadInOrder`, for
  `FileLen < BlkMod` and unless allocations may fail while requests may be
  repeated: with both it is false (section 3). `ReadInv` says that every block on
  its way to a reader carries its own number, and that an open read session
  holds the block whose acknowledgement it expects or, after a failed
  allocation, is one number ahead of the read function. With failing allocations
  that is not inductive by itself: `OneSession` adds that a reader that sends its
  request once has one session, acknowledges only what it has got and gets only
  what was read.
- **`ReadInvariant`, `ReadIsCurrentAlways`, `TimeIsMonotone`** (`TmrCtrProofs`):
  the value returned is one the counter had between call and return, for every
  register width `Base` and call length `ReadBound < Base`. The invariant
  bounds the counter by the start of the call plus the cycles elapsed, and ties
  each local to the counter's value when it was read; monotonicity follows
  because calls do not overlap.
- **`ToProcessorWhole`** (`SwRegisterProofs`): the processor never reads a torn
  word, for every set of words, every gap and every ratio of the clocks.
  `WholeToProcessor` is not inductive: the buffer is latched while the other side
  may be loading. `OneRound` is what makes it so: the six flip-flops of the
  handshake, in the order in which a change travels through them and back, never
  hold more than one change. When the bus latches, the change is behind
  `register_readyRR`, so the design's side cannot load in the same cycle,
  whatever was sampled. The lemmas are one per kind of clock edge.
- **`FromProcessorWhole`** (`SwRegisterProofs`): the other direction, for every
  ratio of the clocks up to `MaxBus` and writes at least `6 * MaxBus + 5` bus
  cycles apart. Here one change at a time is not a property of the circuit, which
  takes a write at any time; it follows from the gap. `Within` bounds the cycles
  since the last write by the place of the change in the handshake: at most
  `MaxBus` for each flip-flop of the design's clock, one for each of the bus's. A
  write that comes after the gap finds all six at rest.
- **`TimersAlwaysArmed`** (`TimeoutsProofs`): `Spec => []TimersSurvive`, for every
  set of cyclic timers and every period. The invariant `OneSpare` says that each
  cyclic timer has exactly one entry of the list and that what is left of the
  pool is one entry, which only `tftp_tmr` takes. It must hold in the middle of
  `sys_check_timeouts` too, where an expired timer's entry is free until its
  handler arms it again. The times of the entries play no part in it.
- **`EthInvariant`, `EthTypes`, `FramesSentIntact`, `FramesReceivedIntact`**
  (`CasperEthProofs`), for every number and length of frames, under `Fits` (a
  padded frame fits into a bank and the core's word is one or two words of the
  processor) and `PromptOrSilent` (the core frees its bank within a thousand
  polls, or nothing is received: the condition of the run). Both directions go
  through the same transmit bank, so neither property is inductive. `DriverInv`
  ties the place in each loop of the driver to the words copied so far and says
  who owns the bank; `SentInv` says what the banks hold of the frame being sent,
  `ReceivedInv` the same of the packet being received.
- **`FramesLeaveWhole`** (`TgePortProofs`): `Spec => []TxWhole`, for every number of
  frames and whatever the two clocks do and sample. As in the registers, the
  seven bits of the handshake hold at most one change (`OneRound`). From where it
  is follows which half of the buffer each side uses, and which frame, complete,
  is in the MAC's: the halves are exchanged only between frames, and once per
  frame handed over.
- **`FpgaWordsWhole`, `ReadsReturnDump`, `BinaryReadsComplete`,
  `UploadsStoredInPlace`, `TransfersInOwnMemory`, `UploadsFailOnlyWhenFull`,
  `LabelledLinesStored`** (`TapcpProofs`): the properties of `tapcp`, for every device
  list, block size, length of a word, of a line and of the line buffer, number of
  transfers and every sensible request. The first part of the proof is about the openers: for
  a sensible request their wrapping arithmetic gives the exact place and a
  number of bytes that stays in the region (`OpensRead`, `OpensWrite`); for a read
  past the end a negative one (`OpensPastEnd`), of which nothing is ever sent
  (`PastInv`). Then there
  are four invariants. `TapInv`, for binary transfers: `nleft` is what was granted
  less what was sent or taken; `ptr` is the place of the next byte, or in the
  middle of a word that of the next word, whose bytes sent so far are all of the
  one read kept in the static variable; and the end of the writer's static word
  is the bytes taken since the last word was stored. `WriteInv`, for the ASCII
  writer: `nleft` and `ptr` are those behind the words stored, and the place in
  `line_buf` is inside it. It rests on `ParseResult`: whatever a line consists of, the
  loop over it ends inside the line, writes words that fit into what is left and
  gives up only when no further word fits. `ReadInv`, for the ASCII readers: after
  `m` lines `ptr` and the label are those of line `m + 1`, `line_buf` holds line `m` of
  the dump and `sent` ends at `lidx` in it. That needs where each line of the dump
  begins (`FlattenLines`). `LinesInv`, for uploads whose lines have labels: behind its
  label the line under way is space and then what `line_buf` holds up to `plb = lidx`,
  and the words stored are those of the lines before it. `LabelledLinesStored` is
  stated for `Labelled`, the condition of the run: without labels it is false
  (`tapcp_text`). It rests on `LoopReadsLine`, that the loop over a line and the
  documented format agree on every line: at each place the loop stops at, a word
  begins or none does, `hex_to_u32` takes exactly that word, and none begins inside
  it.
  The parser and the dump are recursive functions. That such a function exists,
  and what it computes, is proved from `Least`, that a non-empty set of naturals has
  a least element: the first place at which the claim fails cannot be the first.
  `BinaryReadsComplete` needs `Small`: a length of half the address space
  or more is negative as an int, and such a read of `/cpu` ends at once; and a
  device's length is a whole number of words. `FpgaBytes` below half the address
  space is an assumption of the module, 1 MiB in `xparameters.h`.

- **`FlashRecovers`, `FlashStores`, `FlashReads`, `FlashSpares`** (`FlashProofs`): the four
  properties of `flash`, the last an action property, for every number and size
  of sectors, pages and blocks, every sequence of transfers and commands, and any
  number of stalls, unclosed and abandoned commands among them. The driver is
  followed command by command, twice. From a chip at rest `flash_erase_sector`,
  `flash_write_page` and `flash_read` have the effect their names say and leave the
  chip at rest. From *any* state of the chip they leave it at rest as well, if no
  command of the call meets a stall (`EraseRests`, `WriteRests`, `ReadRests`): the
  first command may be swallowed by an open transaction, but each function polls
  the status before it leaves 4-byte mode and disables writes at the end. Between
  calls, `Recovers` and `disturbed` hand the chip from one to the next. That what was
  sent is stored is not inductive, since programming over anything but erased
  bytes loses both: `ErasedAhead` says that the sector an undisturbed write is in is
  erased from the next byte on, and `WriteFits` that a page begins where the last
  one ended, because every block but the last is a whole number of pages. That a
  page stays in the sector erased for it rests on lemmas about quotients and
  remainders.

Only model-checked:

- liveness, which is out of the prover's reach;
- `ExpiresInTime`, `NeverEarly` and the order of the timeout list: when a timer is
  due is a sum over the entries before it, and how late it can get depends on how
  many of them expire in the same pass of the main loop;
- the device list, whose searches are recursive operators;
- `RxWhole`, `RxNotLost` and the other properties of the receive side of the port,
  which depend on a race of the size register with the driver's next look at it
  and so on `Pause` and the ratio of the clocks. `RxWhole` is no theorem for
  every `Loads`: it fails for a frame that follows a bypassed one.

## 5. Not modelled

- The rest of lwIP, the board support package, the fabric side of the 10 GbE
  core, the other HDL cores, the yellow blocks, the Simulink libraries:
  third-party, generated or without program state.
- The parsing of names and digits: a request is a record, a word the sequence of
  its digits. `/temp`, a formatted sensor reading.
- The arbiter's state machine and timeout, sub-arbiters, and the layout for
  AXI4-Lite (`axi4lite_memory_map`).
- Reordering and corruption in the network. UDP checksums cover the second. The
  first matters on a routed path: `recv` takes any block that is not the
  expected duplicate (see the hazard at `tftp_server.c:315`).
- `icap.c` and `/progdev`: what follows is another FPGA image.

## 6. Plan

Done: the server and its proofs, time, the driver and the core's port, flash,
the memory handlers, the device list from the layout to the bus, the software
registers. Next, in this order:

1. Proofs: `RxWhole` of `TgePort` for behaviours in which no frame follows a
   bypassed one, with an invariant that counts the bus cycles since an
   acknowledgement, as `Within` does for the registers; action
   properties that follow from the invariants at hand.
2. That `TgePort` implements the atomic exchanges of `CasperEth`, by refinement.
3. A channel that reorders, and what the server promises then.
4. The arbiter's state machine with slaves slower than its timeout, and the
   layout for AXI4-Lite.
