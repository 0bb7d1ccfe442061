------------------------------- MODULE Flash -------------------------------
(***************************************************************************)
(* The configuration flash behind TAPCP's /flash and /flashcmd: the        *)
(* handlers in casper_tapcp.c, the driver in flash.c, the SPI transactions *)
(* of spi.c and, from how they use it, the flash chip.                     *)
(*                                                                         *)
(* A driver function maps the state of the chip to its state after the     *)
(* commands the function sends; a command is one SPI transaction.          *)
(* send_spi leaves a transaction open when it is told to (SEND_SPI_MORE)   *)
(* or when the SPI core stalls; the bytes of the next command then belong  *)
(* to the open transaction, and the chip does not see a command.  A page   *)
(* program and a read, sent in two calls, are one command here.  The       *)
(* polling loops end when the chip is no longer busy.                      *)
(*                                                                         *)
(* The write handler's loop over the bytes of a block takes one step for   *)
(* each page; no other handler runs before it returns.                     *)
(*                                                                         *)
(* A byte is its origin: byte p of transfer t, or what was in flash at the *)
(* start.  Programming can only clear bits: what is programmed over other  *)
(* data than Erased is lost.                                               *)
(***************************************************************************)
EXTENDS Integers, Sequences

CONSTANTS
  Sectors,     \* number of sectors
  SectorSize,  \* FLASH_SECTOR_SIZE
  PageSize,    \* FLASH_PAGE_SIZE
  BlockSize,   \* TFTP_MAX_PAYLOAD_SIZE
  CmdLens,     \* bytes a /flashcmd exchanges, command included
  MaxStalls,   \* bound on the stalls of the SPI core
  MaxTransfers \* bound on the transfers

ASSUME FlashAssumption ==
  /\ Sectors \in Nat
  /\ PageSize \in Nat \ {0}
  /\ BlockSize \in Nat \ {0} /\ BlockSize % PageSize = 0
  /\ SectorSize \in Nat \ {0} /\ SectorSize % PageSize = 0
  /\ CmdLens \subseteq Nat \ {0}
  /\ MaxStalls \in Nat /\ MaxTransfers \in Nat

VARIABLES
  mem,       \* the contents of the chip
  wel,       \* its write enable latch
  four,      \* is it in 4-byte address mode?
  busy,      \* is an erase or a program under way?
  open,      \* is an SPI transaction open?
  kind,      \* the handler of the transfer in progress: none if there is none
  transfer,  \* the number of the transfer
  start,     \* the address it began at
  u32,       \* state->u32 of a write: bytes written
  tot_len,   \* pbuf->tot_len: the bytes of the write handler's block
  len,       \* how many of them it has dealt with
  writing,   \* is the write handler at work?
  nleft,     \* state->nleft of a read
  got,       \* what the read handler has returned so far
  stalls,    \* how often the SPI core has stalled
  disturbed, \* history: this transfer met a stall, or found the chip not at rest
  spi,       \* history: who used the SPI core last, a driver function, one that
             \* met a stall, or a flash command
  last       \* history: the kind of transfer its handler completed last

chip == <<mem, wel, four, busy, open>>
tapcp_state == <<kind, transfer, start, u32, nleft, got>>
write_loop == <<tot_len, len, writing>>
history == <<stalls, disturbed, spi, last>>
vars == <<chip, tapcp_state, write_loop, history>>

Size == Sectors * SectorSize
Addr == 0..(Size - 1)
Erased == [from |-> "erased"]
Lost == [from |-> "lost"]
Garbage == [from |-> "garbage"]
Old(a) == [from |-> "old", pos |-> a]
Data(t, p) == [from |-> "transfer", transfer |-> t, pos |-> p]

SectorOf(a) == {b \in Addr : b \div SectorSize = a \div SectorSize}

-----------------------------------------------------------------------------
(***************************************************************************)
(* The chip, on a state [mem, wel, four, busy, open].                      *)
(***************************************************************************)

Program(old, new) ==
  IF old = Erased \/ old = new THEN new ELSE Lost

\* What a complete command does.  Erases, programs and changes of the address
\* mode need the write enable latch, and a busy chip answers only status
\* reads.  The driver sends four bytes of address: outside 4-byte mode an
\* erase is not executed, and a program takes the last one (worth a page) for
\* data and spoils the page it then addresses.
Execute(c, cmd) ==
  CASE c.busy -> [c EXCEPT !.busy = cmd.op # "status"]
    [] ~c.busy /\ cmd.op = "write_enable" -> [c EXCEPT !.wel = TRUE]
    [] ~c.busy /\ cmd.op = "write_disable" -> [c EXCEPT !.wel = FALSE]
    [] ~c.busy /\ cmd.op = "enter_4b" /\ c.wel -> [c EXCEPT !.four = TRUE]
    [] ~c.busy /\ cmd.op = "exit_4b" /\ c.wel -> [c EXCEPT !.four = FALSE]
    [] ~c.busy /\ cmd.op = "erase" /\ c.wel /\ c.four ->
         [c EXCEPT !.mem = [a \in Addr |->
                              IF a \in SectorOf(cmd.addr) THEN Erased ELSE @[a]],
                   !.wel = FALSE, !.busy = TRUE]
    [] ~c.busy /\ cmd.op = "program" /\ c.wel /\ c.four ->
         [c EXCEPT !.mem = [a \in Addr |->
                              IF a - cmd.addr \in 0..(PageSize - 1)
                                THEN Program(@[a], cmd.page[a - cmd.addr + 1])
                                ELSE @[a]],
                   !.wel = FALSE, !.busy = TRUE]
    [] ~c.busy /\ cmd.op = "program" /\ c.wel /\ ~c.four ->
         [c EXCEPT !.mem = [a \in Addr |->
                              IF a \div PageSize = cmd.addr \div (PageSize * PageSize)
                                THEN Lost ELSE @[a]],
                   !.wel = FALSE, !.busy = TRUE]
    [] OTHER -> c

\* A command the SPI core stalls in.  What got through of it is no command,
\* but a page program takes what follows for data and is carried out when its
\* transaction is closed; nothing else reaches the chip before.
Stall(c, cmd) ==
  IF cmd.op = "program" /\ ~c.open
    THEN Execute(c, [op |-> "program", addr |-> cmd.addr,
                     page |-> [p \in 1..PageSize |-> Garbage]])
    ELSE c

\* send_spi with no further data to come.  The bytes of a command sent into
\* an open transaction are not a command.  A stalled core leaves the
\* transaction open: c.stall counts the commands up to the one that meets it.
send_spi(c, cmd) ==
  LET next == IF c.stall = 0 THEN 0 ELSE c.stall - 1
  IN CASE c.stall = 1 -> [Stall(c, cmd) EXCEPT !.open = TRUE, !.stall = 0]
       [] c.stall # 1 /\ c.open -> [c EXCEPT !.open = FALSE, !.stall = next]
       [] OTHER -> Execute([c EXCEPT !.stall = next], cmd)

\* The chip before its stall-th command from now meets a stalled core, never
\* if stall = 0, and the chip in the state that follows.
Chip(stall) ==
  [mem |-> mem, wel |-> wel, four |-> four, busy |-> busy, open |-> open,
   stall |-> stall]

ChipBecomes(c) ==
  /\ mem' = c.mem /\ wel' = c.wel /\ four' = c.four
  /\ busy' = c.busy /\ open' = c.open

\* What a driver function assumes of the chip, and should leave.
AtRest == ~open /\ ~busy /\ ~wel /\ ~four

\* A handler calls the driver, which takes the chip from Chip(k) to c: the k-th
\* command it sends meets a stall, and none if k = 0.
Driven(k, c) ==
  /\ c.stall = 0
  /\ ChipBecomes(c)
  /\ stalls' = IF k = 0 THEN stalls ELSE stalls + 1
  /\ disturbed' = (disturbed \/ ~AtRest \/ k # 0)
  /\ spi' = IF k = 0 THEN "driver" ELSE "stalled"

\* No handler step sends more than MaxCommands commands, and at most one of
\* them meets a stall.
MaxCommands == 24
Stalls == IF stalls < MaxStalls THEN 0..MaxCommands ELSE {0}

-----------------------------------------------------------------------------
(***************************************************************************)
(* flash.c.                                                                *)
(***************************************************************************)

Command(op) == [op |-> op]

\* Mutant: the mode is changed without enabling writes.
flash_enter_4b_mode_no_wren(c) ==
  LET mode == send_spi(c, Command("enter_4b"))
      status == send_spi(mode, Command("flag_status"))
  IN send_spi(status, Command("write_disable"))

flash_enter_4b_mode(c) ==
  LET enabled == send_spi(c, Command("write_enable"))
      mode == send_spi(enabled, Command("enter_4b"))
      status == send_spi(mode, Command("flag_status"))
  IN send_spi(status, Command("write_disable"))

flash_exit_4b_mode(c) ==
  LET enabled == send_spi(c, Command("write_enable"))
      mode == send_spi(enabled, Command("exit_4b"))
      status == send_spi(mode, Command("flag_status"))
  IN send_spi(status, Command("write_disable"))

flash_erase_sector(c, a) ==
  LET enabled == send_spi(flash_enter_4b_mode(c), Command("write_enable"))
      erase == send_spi(enabled, [op |-> "erase", addr |-> a])
      polled == send_spi(erase, Command("status"))
  IN send_spi(flash_exit_4b_mode(polled), Command("write_disable"))

flash_write_page(c, a, page) ==
  LET enabled == send_spi(flash_enter_4b_mode(c), Command("write_enable"))
      program == send_spi(enabled, [op |-> "program", addr |-> a, page |-> page])
      polled == send_spi(program, Command("status"))
  IN flash_exit_4b_mode(send_spi(polled, Command("write_disable")))

\* Mutant: a read does not wait until the chip is ready.
flash_read_no_poll(c) ==
  flash_exit_4b_mode(send_spi(flash_enter_4b_mode(c), Command("read")))

flash_read(c) ==
  LET read == send_spi(flash_enter_4b_mode(c), Command("read"))
      polled == send_spi(read, Command("status"))
  IN flash_exit_4b_mode(polled)

\* What flash_read returns for address a.  Outside 4-byte mode the chip takes
\* the last byte of the address for data.
flash_read_data(c, a) ==
  LET entered == flash_enter_4b_mode(c)
      read == send_spi(entered, Command("read"))
  IN IF entered.four /\ ~entered.busy /\ ~entered.open /\ ~read.open
       THEN entered.mem[a] ELSE Garbage

-----------------------------------------------------------------------------
Init ==
  /\ mem = [a \in Addr |-> Old(a)]
  /\ wel = FALSE /\ four = FALSE /\ busy = FALSE /\ open = FALSE
  /\ kind = "none" /\ transfer = 0 /\ start = 0
  /\ u32 = 0 /\ nleft = 0 /\ got = <<>>
  /\ tot_len = 0 /\ len = 0 /\ writing = FALSE
  /\ stalls = 0 /\ disturbed = FALSE /\ spi = "driver" /\ last = "none"

\* casper_tapcp_open_flash: a write must start at a sector.
OpenWrite ==
  /\ kind = "none" /\ transfer < MaxTransfers
  /\ \E a \in Addr : a % SectorSize = 0 /\ start' = a
  /\ kind' = "write" /\ transfer' = transfer + 1
  /\ u32' = 0 /\ nleft' = 0 /\ got' = <<>>
  /\ disturbed' = FALSE /\ last' = "none"
  /\ UNCHANGED <<chip, write_loop, stalls, spi>>

OpenRead ==
  /\ kind = "none" /\ transfer < MaxTransfers
  /\ \E a \in Addr : /\ a % PageSize = 0 /\ start' = a
                     /\ nleft' \in 0..(Size - a)
  /\ kind' = "read" /\ transfer' = transfer + 1
  /\ u32' = 0 /\ got' = <<>>
  /\ disturbed' = FALSE /\ last' = "none"
  /\ UNCHANGED <<chip, write_loop, stalls, spi>>

\* casper_tapcp_open_flashcmd sends the client's command, one that reads, and
\* leaves the transaction open.
OpenCmd ==
  /\ kind = "none" /\ transfer < MaxTransfers
  /\ nleft' \in CmdLens
  /\ open' = TRUE
  /\ kind' = "cmd" /\ transfer' = transfer + 1
  /\ start' = 0 /\ u32' = 0 /\ got' = <<>>
  /\ disturbed' = FALSE /\ spi' = "command" /\ last' = "none"
  /\ UNCHANGED <<mem, wel, four, busy, write_loop, stalls>>

\* The page at offset u32 when the block ends at offset e: bytes after the
\* end are whatever the stack held.
Page(e) ==
  [p \in 1..PageSize |->
     IF u32 + p <= e THEN Data(transfer, u32 + p - 1) ELSE Garbage]

\* Mutant: a sector is erased when the page before it has been written.
StorePageEraseLate(c, a, page) ==
  LET written == flash_write_page(c, a, page)
  IN IF (a + PageSize) % SectorSize = 0
       THEN flash_erase_sector(written, a + PageSize) ELSE written

\* A new sector is erased before its first page is written.
StorePage(c, a, page) ==
  flash_write_page(IF a % SectorSize = 0 THEN flash_erase_sector(c, a) ELSE c,
                   a, page)

\* A block shorter than BlockSize is the last of a transfer, in either
\* direction: the server then closes it.
EndIfShort(n) ==
  IF n < BlockSize THEN kind' = "none" /\ last' = kind
                   ELSE UNCHANGED <<kind, last>>

\* casper_tapcp_write_flash_words_binary is given a block of n bytes.
WriteBlock(n) ==
  /\ kind = "write" /\ ~writing /\ start + u32 + n <= Size
  /\ writing' = TRUE /\ tot_len' = n /\ len' = 0
  /\ UNCHANGED <<chip, tapcp_state, history>>

\* It stores a page once its last byte has come, or at the end of the block.
\* Only the last block of a transfer is short, so that a block begins at a
\* whole page.
WritePage ==
  /\ writing /\ len < tot_len
  /\ LET left == tot_len - len
         n == IF left < PageSize THEN left ELSE PageSize
         a == start + u32
     IN /\ \E k \in Stalls : Driven(k, StorePage(Chip(k), a, Page(u32 + n)))
        /\ u32' = u32 + n
        /\ len' = len + n
  /\ UNCHANGED <<kind, transfer, start, nleft, got, tot_len, writing, last>>

WriteReturn ==
  /\ writing /\ len = tot_len
  /\ writing' = FALSE
  /\ EndIfShort(tot_len)
  /\ UNCHANGED <<chip, transfer, start, u32, nleft, got, tot_len, len,
                 stalls, disturbed, spi>>

\* casper_tapcp_read_flash_bytes_binary.
ReadBlock ==
  /\ kind = "read"
  /\ LET n == IF nleft > BlockSize THEN BlockSize ELSE nleft
         a == start + Len(got)
     IN /\ IF n = 0
             THEN UNCHANGED <<chip, got, stalls, disturbed, spi>>
             ELSE \E k \in Stalls :
                    /\ Driven(k, flash_read(Chip(k)))
                    /\ got' = got \o [p \in 1..n |-> flash_read_data(Chip(k), a + p - 1)]
        /\ nleft' = nleft - n
        /\ EndIfShort(n)
  /\ UNCHANGED <<transfer, start, u32, write_loop>>

\* casper_tapcp_read_flashcmd_binary returns n = min(nleft, bytes) bytes and
\* counts them down in both `len' and `bytes': it closes the transaction if
\* n < bytes - n.
CmdCloses(n) == n < BlockSize - n

ReadCmd ==
  /\ kind = "cmd"
  /\ LET n == IF nleft > BlockSize THEN BlockSize ELSE nleft
     IN /\ open' = (open /\ ~CmdCloses(n))
        /\ nleft' = nleft - n
        /\ EndIfShort(n)
  /\ UNCHANGED <<mem, wel, four, busy, transfer, start, u32, got, write_loop,
                 stalls, disturbed, spi>>

\* The client goes away: the server times out and closes the transfer.
Abandon ==
  /\ kind # "none" /\ ~writing
  /\ kind' = "none" /\ nleft' = 0
  /\ UNCHANGED <<chip, transfer, start, u32, got, write_loop, history>>

Next ==
  \/ OpenWrite \/ OpenRead \/ OpenCmd
  \/ (\E n \in 0..BlockSize : WriteBlock(n)) \/ WritePage \/ WriteReturn
  \/ ReadBlock \/ ReadCmd \/ Abandon

Spec == Init /\ [][Next]_vars

-----------------------------------------------------------------------------
\* Recovers: a driver function that meets no stall leaves the chip at rest, with
\* no transaction open, not busy, out of 4-byte mode and with writes disabled.
\* It does so whatever it found: a transaction that a stall, an unclosed flash
\* command or a vanished client left open and that swallows its first command, a
\* program nobody waited for, or the 4-byte mode of a function that was cut
\* short.  A fault can therefore spoil the transfer it happens in and the first
\* driver call after it, and nothing later.
Recovers == spi = "driver" => AtRest

\* StoredAsSent: whenever the write handler has written a page, so also when it
\* returns and the server acknowledges the block, every byte of the transfer so
\* far is in flash at its place, whatever the flash held and whatever transfers
\* were abandoned, stalled or left unclosed before, unless this transfer was
\* disturbed itself.
StoredAsSent ==
  ~disturbed => \A p \in 0..(u32 - 1) : mem[start + p] = Data(transfer, p)

\* OthersUntouched: a page written in an undisturbed transfer changes no byte
\* outside the sectors that hold the bytes of its own transfer: a neighbouring
\* image is never erased.
OthersUntouched ==
  [][~disturbed' =>
       \A a \in Addr : mem'[a] # mem[a] =>
         \E p \in 0..(u32' - 1) : a \in SectorOf(start + p)]_vars

\* ReadsBack: what the read handler has returned in an undisturbed transfer is
\* what the flash holds, whatever happened to the transfers before.
ReadsBack ==
  ~disturbed /\ (kind = "read" \/ last = "read") =>
    \A p \in 1..Len(got) : got[p] = mem[start + p - 1]
=============================================================================
