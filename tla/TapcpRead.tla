----------------------------- MODULE TapcpRead -----------------------------
(***************************************************************************)
(* TAPCP's memory readers (casper_tapcp.c): the functions the TFTP server  *)
(* calls once for every block of a transfer, and the state they keep from  *)
(* one call to the next.  The memory is live: the gateware may change a    *)
(* register between any two reads of it.                                   *)
(*                                                                         *)
(* The readers differ in what they send.  The binary ones send bytes, the  *)
(* FPGA one a word at a time out of a static variable.  The ASCII ones     *)
(* make up a line in the static line_buf and send it, over as many blocks  *)
(* as it takes.  A character of a line is its label, one datum (a byte or  *)
(* a word: the digits of a datum are not told apart) or the newline.       *)
(***************************************************************************)
EXTENDS TapcpOpen, Sequences, SequencesExt

CONSTANTS
  Requests,     \* the requests that clients make
  LineData,     \* data on a line: 16 bytes or 4 words
  BlockSize,    \* TFTP_MAX_PAYLOAD_SIZE, in characters
  MaxVersions,  \* bound on the changes of the memory
  MaxTransfers  \* bound on the transfers

Binary == {"mem_bytes_binary", "fpga_words_binary"}
Ascii == {"mem_bytes_ascii", "fpga_words_ascii"}

ASSUME ReadAssumption ==
  /\ LineData \in Nat \ {0} /\ BlockSize \in Nat \ {0}
  /\ MaxVersions \in Nat /\ MaxTransfers \in Nat
  /\ \A r \in Requests :
       /\ r.cmd \in {"dev", "fpga", "cpu"} \cup DOMAIN Texts
       /\ r.off \in 0..(AddrMod - 1) /\ r.len \in {None} \cup 0..(AddrMod - 1)
       /\ r.write \in BOOLEAN /\ r.binary \in BOOLEAN

VARIABLES
  handler,   \* the read or write function of the TFTP context
  status,    \* of the last request: open, done, lost, failed, refused; or idle
  transfer,  \* the number of the last request
  req,       \* that request
  ptr,       \* state->ptr
  nleft,     \* state->nleft
  lidx,      \* state->lidx
  u32,       \* state->u32: the label of the next line
  line_buf,  \* static: the current line
  word,      \* static: the word being sent
  version,   \* how often the memory has changed
  pc,        \* where the current call is: at its loop, or copying a line
  len,       \* its local len: characters in the block so far
  sent       \* history: everything returned for this transfer

tapcp_state == <<ptr, nleft, lidx, u32>>
statics == <<line_buf, word>>
request == <<handler, status, transfer, req>>
rvars == <<request, tapcp_state, statics, version, pc, len, sent>>

\* A datum read from address a now; the transfer is part of it so that remains
\* of an earlier one are told apart.  The bus ignores the two lowest bits of the
\* address of a word.
Read(a) == [transfer |-> transfer, at |-> a, version |-> version]
Word(a) == Read(AlignDown(a))
Label(n) == [label |-> n]
Newline == [newline |-> TRUE]

\* Bytes that one datum of an ASCII line stands for.
UnitOf(h) == IF h = "fpga_words_ascii" THEN WordSize ELSE 1
Unit == UnitOf(handler)
Datum(a) == IF Unit = 1 THEN Read(a) ELSE Word(a)

Smaller(a, b) == IF a < b THEN a ELSE b

NoRequest == [cmd |-> "none", write |-> FALSE, binary |-> TRUE]

ReadInit ==
  /\ handler = "none" /\ status = "idle" /\ transfer = 0 /\ req = NoRequest
  /\ ptr = 0 /\ nleft = 0 /\ lidx = 0 /\ u32 = 0
  /\ version = 0
  /\ line_buf = <<>> /\ word = Read(0)
  /\ pc = "loop" /\ len = 0 /\ sent = <<>>

\* Mutant: the position in the line is not reset.
OpenKeepsLine(r) ==
  /\ status = "idle" /\ transfer < MaxTransfers /\ transfer' = transfer + 1
  /\ req' = r /\ len' = 0 /\ sent' = <<>> /\ OpenRequest(r).ok
  /\ status' = "open" /\ handler' = Handler(r)
  /\ ptr' = OpenRequest(r).ptr /\ nleft' = OpenRequest(r).nleft
  /\ UNCHANGED <<lidx, u32, statics, version, pc>>

\* casper_tftp_open: the context's functions are reset, the opener is called and
\* may install a handler.  Handlers that keep a line start it afresh, the
\* binary writer its count; the binary readers use neither.  A request for a
\* device, and every name that is no other command's, leaves what
\* casper_find_dev returned in state->ptr even if it is refused.
Open(r) ==
  /\ status = "idle" /\ transfer < MaxTransfers /\ transfer' = transfer + 1
  /\ req' = r /\ len' = 0 /\ sent' = <<>>
  /\ LET o == OpenRequest(r)
     IN IF o.ok
          THEN /\ status' = "open" /\ handler' = Handler(r)
               /\ ptr' = o.ptr /\ nleft' = o.nleft
               /\ lidx' = IF Handler(r) \in Ascii \cup {"write_ascii"} THEN 0 ELSE lidx
               /\ u32' = IF Handler(r) \in Binary THEN u32 ELSE 0
          ELSE /\ status' = "refused" /\ handler' = "none"
               /\ ptr' = CASE r.cmd = "fpga" \/ (r.cmd = "cpu" /\ ~r.write) -> ptr
                           [] r.cmd = "dev" /\ r.name \in DOMAIN Devices -> DevAddr(r.name)
                           [] OTHER -> 0
               /\ UNCHANGED <<nleft, lidx, u32>>
  /\ UNCHANGED <<statics, version, pc>>

\* Mutant: the last byte is left behind.
LoopingShort == status = "open" /\ pc = "loop" /\ len < BlockSize /\ nleft > 1

Looping == status = "open" /\ pc = "loop" /\ len < BlockSize /\ nleft > 0

Emit(c) == sent' = Append(sent, c) /\ len' = len + 1

MemByte ==
  /\ handler = "mem_bytes_binary" /\ Looping
  /\ Emit([of |-> Read(ptr), byte |-> 0])
  /\ ptr' = U32(ptr + 1) /\ nleft' = nleft - 1
  /\ UNCHANGED <<request, lidx, u32, statics, version, pc>>

\* Mutant: every byte is read from the memory.
FpgaByteUnbuffered ==
  /\ handler = "fpga_words_binary" /\ Looping
  /\ nleft' = nleft - 1
  /\ LET b == WordSize - 1 - (nleft' % WordSize)
     IN /\ Emit([of |-> Word(ptr), byte |-> b])
        /\ ptr' = IF b = WordSize - 1 THEN U32(ptr + WordSize) ELSE ptr
  /\ UNCHANGED <<request, lidx, u32, statics, version, pc>>

\* The count of the bytes left tells which byte of the word is next; the
\* first one reads the word.
FpgaByte ==
  /\ handler = "fpga_words_binary" /\ Looping
  /\ nleft' = nleft - 1
  /\ LET b == WordSize - 1 - (nleft' % WordSize)
     IN /\ IF b = 0 THEN word' = Word(ptr) /\ ptr' = U32(ptr + WordSize)
                    ELSE UNCHANGED <<word, ptr>>
        /\ Emit([of |-> word', byte |-> b])
  /\ UNCHANGED <<request, lidx, u32, line_buf, version, pc>>

\* A new line: its label and as many data as are left and fit on it.  The
\* data are read one after the other, but by a single pass of the processor:
\* a dump makes no promise about when each was read.
NewLine ==
  /\ handler \in Ascii /\ Looping /\ lidx = 0
  /\ LET n == Smaller(LineData, nleft \div Unit)
     IN /\ line_buf' = <<Label(u32)>>
             \o [k \in 1..n |-> Datum(U32(ptr + (k - 1) * Unit))] \o <<Newline>>
        /\ ptr' = U32(ptr + n * Unit) /\ nleft' = nleft - n * Unit
  /\ u32' = u32 + 16
  /\ pc' = "copy"
  /\ UNCHANGED <<request, lidx, word, version, len, sent>>

\* The line begun in an earlier call goes on.
SameLine ==
  /\ handler \in Ascii /\ Looping /\ lidx # 0
  /\ pc' = "copy"
  /\ UNCHANGED <<request, tapcp_state, statics, version, len, sent>>

Copy ==
  /\ pc = "copy"
  /\ Emit(line_buf[lidx + 1])
  /\ IF line_buf[lidx + 1] = Newline
       THEN lidx' = 0 /\ pc' = "loop"
       ELSE /\ lidx' = lidx + 1
            /\ pc' = IF len' < BlockSize THEN "copy" ELSE "loop"
  /\ UNCHANGED <<request, ptr, nleft, u32, statics, version>>

Close == handler' = "none" /\ ptr' = 0 /\ nleft' = 0

\* The call returns len.  A full block is sent and the next call begins; a
\* short one is the last, after which the server closes the session
\* (casper_tftp_close).
Return ==
  /\ status = "open" /\ handler \in Binary \cup Ascii /\ pc = "loop" /\ ~Looping
  /\ len' = 0
  /\ IF len = BlockSize THEN UNCHANGED <<status, handler, ptr, nleft>>
                        ELSE status' = "done" /\ Close
  /\ UNCHANGED <<transfer, req, lidx, u32, statics, version, pc, sent>>

\* The client is lost between two blocks.
Abandon ==
  /\ status = "open" /\ pc = "loop" /\ len = 0
  /\ status' = "lost" /\ Close /\ sent' = <<>>
  /\ UNCHANGED <<transfer, req, lidx, u32, statics, version, pc, len>>

\* The gateware writes a register.  What happens to it while nothing reads it
\* is not seen.
MemoryChanges ==
  /\ version < MaxVersions /\ handler \in Binary \cup Ascii
  /\ version' = version + 1
  /\ UNCHANGED <<request, tapcp_state, statics, pc, len, sent>>

ReadStep ==
  \/ MemByte \/ FpgaByte \/ NewLine \/ SameLine \/ Copy
  \/ Return \/ MemoryChanges

-----------------------------------------------------------------------------
\* A datum without the time it was read at.
Plain(c) ==
  CASE "of" \in DOMAIN c -> <<c.of.transfer, c.of.at + c.byte>>
    [] "at" \in DOMAIN c -> <<c.transfer, c.at>>
    [] OTHER -> c

\* What the whole transfer should return: the bytes in order, or a hex dump.
BinaryDump(at, n) == [k \in 1..n |-> <<transfer, at + k - 1>>]

AsciiDump(at, n, unit) ==
  LET data == n \div unit
      lines == (data + LineData - 1) \div LineData
  IN FlattenSeq([l \in 1..lines |->
       <<Label((l - 1) * 16)>>
         \o [k \in 1..Smaller(LineData, data - (l - 1) * LineData) |->
               <<transfer, at + ((l - 1) * LineData + k - 1) * unit>>]
         \o <<Newline>>])

Dump ==
  IF Handler(req) \in Binary
    THEN BinaryDump(Start(req), Extent(req))
    ELSE AsciiDump(Start(req), Extent(req), UnitOf(Handler(req)))

Reading == status \in {"open", "done"} /\ ~req.write /\ Sensible(req)

\* InOrder: what the calls have returned so far, put together, is the start of
\* the dump of the memory asked for, from the offset of the request on.  No
\* character is lost, repeated or left over from another transfer where a block
\* ends inside a word or a line, and the openers' arithmetic, alignment and
\* read-only flag do not shift it.
InOrder == Reading => IsPrefix([k \in 1..Len(sent) |-> Plain(sent[k])], Dump)

\* The addresses of the data sent.
SentFrom ==
  {sent[k].of.at + sent[k].byte : k \in {j \in 1..Len(sent) : "of" \in DOMAIN sent[j]}}
    \cup {sent[k].at : k \in {j \in 1..Len(sent) : "at" \in DOMAIN sent[j]}}

\* Complete: a transfer of a binary reader that ends, because a call returned
\* less than a block, has returned all of the dump, if the number of its bytes
\* is positive as an int.
Complete ==
  Reading /\ Extent(req) < AddrMod \div 2 /\ Handler(req) \in Binary /\ status = "done" =>
    Len(sent) = Len(Dump)

\* AsciiComplete: the same of the ASCII readers, whose output is "a simple ASCII
\* hex dump" of the bytes asked for.
AsciiComplete ==
  Reading /\ Handler(req) \in Ascii /\ status = "done" => Len(sent) = Len(Dump)

\* WordsWhole: the bytes of a word of FPGA memory come from one read of it,
\* although the register may change while the word is sent and its bytes may
\* be in two blocks.
WordsWhole ==
  Reading /\ Handler(req) = "fpga_words_binary" =>
    \A j, k \in 1..Len(sent) :
      sent[j].of.at = sent[k].of.at => sent[j].of = sent[k].of
=============================================================================
