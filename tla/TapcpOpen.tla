----------------------------- MODULE TapcpOpen -----------------------------
(***************************************************************************)
(* The openers of TAPCP (casper_tapcp.c): from a request to the first      *)
(* address and the number of bytes left in tapcp_state, in the unsigned    *)
(* arithmetic of the processor.  AddrMod stands for 2^32.                  *)
(*                                                                         *)
(* A request is what casper_tftp_open finds in a name: the command, the    *)
(* device, the offset and the length (None when the name ends before it),  *)
(* whether it writes, and whether the mode is octet.                       *)
(***************************************************************************)
EXTENDS Integers

CONSTANTS
  AddrMod,    \* 2^32
  Devices,    \* name -> [offset, length, ro], as casper_find_dev returns them
  FpgaBase,   \* FPGA_BASEADDR
  FpgaBytes,  \* FPGA_NBYTES
  Texts       \* "help", "listdev" -> [at, bytes]: what these commands send

WordSize == 4
None == -1

ASSUME OpenAssumption ==
  /\ AddrMod \in Nat /\ AddrMod % WordSize = 0
  /\ FpgaBase \in Nat \ {0} /\ FpgaBytes \in Nat \ {0}
  /\ FpgaBytes < AddrMod \div 2  \* 1 MiB in xparameters.h
  /\ FpgaBase % WordSize = 0 /\ FpgaBase + FpgaBytes <= AddrMod
  /\ \A d \in DOMAIN Devices :
       /\ Devices[d].offset \in Nat /\ Devices[d].length \in Nat \ {0}
       /\ Devices[d].offset % WordSize = 0 /\ Devices[d].ro \in BOOLEAN
       /\ Devices[d].offset + Devices[d].length <= FpgaBytes
  /\ \A c \in DOMAIN Texts :
       /\ c \notin {"dev", "fpga", "cpu"}
       /\ Texts[c].at \in Nat /\ Texts[c].bytes \in Nat
       /\ Texts[c].bytes < AddrMod \div 2

\* Unsigned results wrap; nleft is an int, so the upper half is negative.
U32(n) == n % AddrMod
Int32(n) == IF U32(n) < AddrMod \div 2 THEN U32(n) ELSE U32(n) - AddrMod

AlignDown(n) == n - (n % WordSize)
AlignUp(n) == AlignDown(U32(n + WordSize - 1))

Refused == [ok |-> FALSE]
Opened(ptr, nleft) == [ok |-> TRUE, ptr |-> U32(ptr), nleft |-> nleft]

\* What casper_find_dev returns: the read-only flag is the lowest bit of the
\* offset in the device list, and it stays in the address.
DevAddr(n) == U32(FpgaBase + Devices[n].offset + (IF Devices[n].ro THEN 1 ELSE 0))

\* Mutant: the offset is not part of the bounds check.
OpenDevNoOffset(r) ==
  IF r.name \notin DOMAIN Devices THEN Refused ELSE
  LET d == Devices[r.name]
      words == d.length \div WordSize
      cmd_len == IF r.write \/ r.len \in {None, 0} THEN U32(words - r.off) ELSE r.len
  IN IF \/ r.write /\ d.ro
        \/ cmd_len = 0
        \/ ~r.write /\ cmd_len > words
       THEN Refused
       ELSE Opened(DevAddr(r.name) + WordSize * r.off,
                   Int32(WordSize * cmd_len))

\* casper_tapcp_open_dev.  The offset and the length are in words.  Only reads
\* take a length and only reads are checked against the end.
OpenDev(r) ==
  IF r.name \notin DOMAIN Devices THEN Refused ELSE
  LET d == Devices[r.name]
      words == d.length \div WordSize
      cmd_len == IF r.write \/ r.len \in {None, 0} THEN U32(words - r.off) ELSE r.len
  IN IF \/ r.write /\ d.ro
        \/ cmd_len = 0
        \/ ~r.write /\ U32(r.off + cmd_len) > words
       THEN Refused
       ELSE Opened(DevAddr(r.name) + WordSize * r.off,
                   Int32(WordSize * cmd_len))

\* casper_tapcp_open_mem, for /fpga and /cpu: byte offsets and lengths.  CPU
\* memory is read only and is not bounded.
OpenMem(r) ==
  LET fpga == r.cmd = "fpga"
      cmd_off == AlignDown(r.off)
      cmd_len == AlignUp(IF r.write \/ r.len = None THEN 1 ELSE r.len)
  IN IF \/ r.write /\ ~fpga
        \/ ~r.write /\ cmd_len = 0
        \/ ~r.write /\ fpga /\ U32(cmd_off + cmd_len) > FpgaBytes
       THEN Refused
       ELSE Opened((IF fpga THEN FpgaBase ELSE 0) + cmd_off,
                   Int32(IF r.write THEN FpgaBytes - cmd_off ELSE cmd_len))

\* casper_tapcp_open_help, and casper_tapcp_open_listdev in octet mode.
OpenText(r) ==
  IF r.write THEN Refused ELSE Opened(Texts[r.cmd].at, Texts[r.cmd].bytes)

\* The choice made by casper_tftp_open.  A write to what is only read goes on to
\* casper_tapcp_open_dev, which knows no device of that name.
OpenRequest(r) ==
  CASE r.cmd \in {"fpga", "cpu"} -> OpenMem(r)
    [] r.cmd \in DOMAIN Texts -> OpenText(r)
    [] OTHER -> OpenDev(r)

\* The handler the opener installs.
Handler(r) ==
  CASE r.cmd \in DOMAIN Texts -> "mem_bytes_binary"
    [] r.cmd = "cpu" -> IF r.binary THEN "mem_bytes_binary" ELSE "mem_bytes_ascii"
    [] r.write -> IF r.binary THEN "write_binary" ELSE "write_ascii"
    [] OTHER -> IF r.binary THEN "fpga_words_binary" ELSE "fpga_words_ascii"

-----------------------------------------------------------------------------
\* What a request asks for, in exact arithmetic and as the comments describe
\* it: the place it starts at, and the bytes a read asks for.
Start(r) ==
  CASE r.cmd \in DOMAIN Texts -> Texts[r.cmd].at
    [] r.cmd = "dev" -> FpgaBase + Devices[r.name].offset + WordSize * r.off
    [] r.cmd = "fpga" -> FpgaBase + AlignDown(r.off)
    [] OTHER -> AlignDown(r.off)

Extent(r) ==
  CASE r.cmd \in DOMAIN Texts -> Texts[r.cmd].bytes
    [] r.cmd = "dev" ->
         IF r.len \in {None, 0} THEN Devices[r.name].length - WordSize * r.off
                                ELSE WordSize * r.len
    [] OTHER -> WordSize * ((IF r.len = None THEN 4 ELSE r.len + 3) \div WordSize)

\* The memory a request may touch.
Region(r) ==
  CASE r.cmd \in DOMAIN Texts -> Start(r)..(Start(r) + Extent(r) - 1)
    [] r.cmd = "dev" -> LET b == FpgaBase + Devices[r.name].offset
                        IN b..(b + Devices[r.name].length - 1)
    [] r.cmd = "fpga" -> FpgaBase..(FpgaBase + FpgaBytes - 1)
    [] OTHER -> 0..(AddrMod - 1)

\* A request whose offset is in its region, and, if it reads, whose end can be
\* written in 32 bits: the requests for which the openers' arithmetic is exact.
Sensible(r) ==
  /\ r.cmd = "dev" => r.name \in DOMAIN Devices
  /\ Start(r) \in Region(r)
  /\ ~r.write => Start(r) + Extent(r) <= AddrMod

\* A read of a device that starts past its end, in the lower half of 32 bits, and
\* gives no length: it passes the check, with a negative number of bytes left.
PastEnd(r) ==
  /\ r.cmd = "dev" /\ r.name \in DOMAIN Devices /\ ~r.write /\ r.len \in {None, 0}
  /\ Devices[r.name].length < WordSize * r.off
  /\ WordSize * r.off < AddrMod \div 2
=============================================================================
