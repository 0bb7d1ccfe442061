----------------------------- MODULE TapcpWrite -----------------------------
(***************************************************************************)
(* TAPCP's writers of FPGA memory (casper_tapcp.c), beside the readers     *)
(* they share tapcp_state and line_buf with.  A call of a writer takes the *)
(* bytes of one block one after the other; what it has not used up stays   *)
(* in static variables for the next call.                                  *)
(*                                                                         *)
(* A byte of an upload is its place in it, so that a byte that is lost,    *)
(* repeated or left over is seen.  Of the characters of an ASCII upload    *)
(* the writer tells five kinds apart.  A word is the sequence of the bytes *)
(* or digits it was made of.                                               *)
(***************************************************************************)
EXTENDS TapcpRead

CONSTANTS
  Labelled,     \* TRUE: only hex dumps as the readers make them
  WordDigits,   \* hex digits in a word: 8
  LineBufSize,  \* sizeof(line_buf)
  MaxBytes      \* bound on the bytes of an upload

ASSUME WriteAssumption ==
  /\ Labelled \in BOOLEAN
  /\ WordDigits \in Nat \ {0} /\ LineBufSize \in Nat \ {0} /\ MaxBytes \in Nat

VARIABLES
  wword,   \* static word of the binary writer
  plb,     \* the ASCII writer's local pointer into line_buf, from 0
  got,     \* history: bytes of this upload taken so far
  line,    \* history: the line being received, label and all
  expect,  \* history: the words of the lines received, as documented
  stored   \* history: the words written, with their addresses

wvars == <<wword, plb, got, line, expect, stored>>
vars == <<rvars, wvars>>

Kinds == {"digit", "space", "newline", "colon", "other"}
IsSpace(c) == c.kind \in {"space", "newline"}
IsDigit(c) == c.kind = "digit"

Writing(h) == status = "open" /\ handler = h

Init ==
  /\ ReadInit
  /\ wword = <<0, 0, 0, 0>>
  /\ plb = 0 /\ got = 0 /\ line = <<>> /\ expect = <<>> /\ stored = <<>>

OpenAny ==
  \E r \in Requests :
    /\ Open(r)
    /\ plb' = 0
    /\ UNCHANGED <<wword, got, line, expect, stored>>

\* The histories of a finished request are cleared.  The bytes it left in the
\* static variables are no bytes of the next one.
Forget ==
  /\ status \notin {"open", "idle"} /\ status' = "idle"
  /\ req' = NoRequest /\ sent' = <<>>
  /\ got' = 0 /\ line' = <<>> /\ expect' = <<>> /\ stored' = <<>>
  /\ wword' = <<0, 0, 0, 0>>
  /\ line_buf' = [i \in 1..Len(line_buf) |->
       IF "kind" \in DOMAIN line_buf[i] THEN [line_buf[i] EXCEPT !.id = 0] ELSE line_buf[i]]
  /\ UNCHANGED <<handler, transfer, tapcp_state, word, version, pc, len, plb>>

\* A writer returns -1: the server sends an error and closes.
Fail == status' = "failed" /\ Close

\* Mutant: the count of bytes is compared before it is increased.
WriteByteLate ==
  /\ Writing("write_binary") /\ len < BlockSize /\ got < MaxBytes /\ nleft # 0
  /\ len' = len + 1 /\ got' = got + 1
  /\ wword' = Append(Tail(wword), got')
  /\ u32' = U32(u32 + 1)
  /\ IF u32 % WordSize = 0
       THEN /\ stored' = Append(stored, [at |-> AlignDown(ptr), word |-> wword'])
            /\ ptr' = U32(ptr + WordSize)
       ELSE UNCHANGED <<stored, ptr>>
  /\ nleft' = IF nleft > 0 THEN nleft - 1 ELSE nleft
  /\ UNCHANGED <<request, lidx, statics, version, pc, sent, plb, line, expect>>

\* casper_tapcp_write_fpga_words_binary, one byte.  A negative nleft is no bound.
WriteByte ==
  /\ Writing("write_binary") /\ len < BlockSize /\ got < MaxBytes /\ nleft # 0
  /\ len' = len + 1 /\ got' = got + 1
  /\ wword' = Append(Tail(wword), got')
  /\ u32' = U32(u32 + 1)
  /\ IF u32' % WordSize = 0
       THEN /\ stored' = Append(stored, [at |-> AlignDown(ptr), word |-> wword'])
            /\ ptr' = U32(ptr + WordSize)
       ELSE UNCHANGED <<stored, ptr>>
  /\ nleft' = IF nleft > 0 THEN nleft - 1 ELSE nleft
  /\ UNCHANGED <<request, lidx, statics, version, pc, sent, plb, line, expect>>

WriteByteFull ==
  /\ Writing("write_binary") /\ len < BlockSize /\ got < MaxBytes /\ nleft = 0
  /\ Fail
  /\ UNCHANGED <<transfer, req, lidx, u32, statics, version, pc, len, sent, wvars>>

\* hex_to_u32 at position p: the digits from p on, at most WordDigits.
HexEnd(buf, p) ==
  CHOOSE e \in p..Smaller(p + WordDigits, Len(buf) + 1) :
    /\ \A i \in p..(e - 1) : IsDigit(buf[i])
    /\ e = p + WordDigits \/ ~IsDigit(buf[e])

Digits(buf, p, e) == [i \in 1..(e - p) |-> buf[p + i - 1].id]

\* Mutant: the last word of the region is held to be outside.
NoRoomEarly(left) == 0 <= left /\ left <= WordSize

\* The bound on a word: a negative nleft is none.
NoRoom(left) == 0 <= left /\ left < WordSize

\* The loop over a line in line_buf, which ends with a newline: the words it
\* writes, whether it ran into the bound, and where it stopped.
ProcessLine(buf, n) ==
  LET stop(p, left, full) == [words |-> <<>>, full |-> full, at |-> p, left |-> left]
      from[p \in 1..Len(buf)] == [left \in Int |->
        CASE buf[p].kind = "space" -> from[p + 1][left]
          [] ~IsDigit(buf[p]) /\ buf[p].kind # "space" -> stop(p, left, FALSE)
          [] IsDigit(buf[p]) /\ NoRoom(left) -> stop(p, left, TRUE)
          [] OTHER ->
               LET e == HexEnd(buf, p)
                   rest == from[e][IF left > 0 THEN left - WordSize ELSE left]
               IN [rest EXCEPT !.words = <<Digits(buf, p, e)>> \o @]]
  IN from[1][n]

Writes(words) ==
  [k \in 1..Len(words) |->
     [at |-> AlignDown(U32(ptr + WordSize * (k - 1))), word |-> words[k]]]

-----------------------------------------------------------------------------
\* The documented format ("Write Formats"), for a line without its newline: what
\* follows the first colon, if there is one, up to the first character that is
\* neither space nor digit; groups of digits, cut into words from the left.
Colon(l) ==
  LET colons == {i \in 1..Len(l) : l[i].kind = "colon"}
  IN IF colons = {} THEN 0 ELSE CHOOSE i \in colons : \A j \in colons : i <= j

\* The places of the digits.
DigitsIn(l) ==
  {i \in (Colon(l) + 1)..Len(l) :
     /\ IsDigit(l[i])
     /\ \A j \in (Colon(l) + 1)..i : IsSpace(l[j]) \/ IsDigit(l[j])}

\* Where words begin: every WordDigits from the beginning g of a group on.
WordStarts(D) ==
  {i \in D : \E g \in 1..i : /\ g..i \subseteq D /\ g - 1 \notin D
                            /\ (i - g) % WordDigits = 0}

WordEnd(D, i) ==
  CHOOSE e \in (i + 1)..(i + WordDigits) :
    /\ i..(e - 1) \subseteq D
    /\ e = i + WordDigits \/ e \notin D

WordAt(l, i) == [k \in 1..(WordEnd(DigitsIn(l), i) - i) |-> l[i + k - 1].id]

LineWords(l) ==
  LET S == WordStarts(DigitsIn(l))
      nth(k) == CHOOSE i \in S : Cardinality({j \in S : j <= i}) = k
  IN [k \in 1..Cardinality(S) |-> WordAt(l, nth(k))]

-----------------------------------------------------------------------------
\* What a client may send next.  The dumps that the readers make have a label
\* and at least one datum on every line.
Sends(c) ==
  /\ len < BlockSize /\ got < MaxBytes
  /\ Labelled /\ c.kind = "newline" =>
       /\ \E i \in 1..Len(line) : line[i].kind = "colon"
       /\ \E i \in (Colon(line) + 1)..Len(line) : ~IsSpace(line[i])

Receive(c) ==
  /\ len' = len + 1 /\ got' = got + 1
  /\ line' = IF c.kind = "newline" THEN <<>> ELSE Append(line, c)
  /\ expect' = IF c.kind = "newline" THEN expect \o LineWords(line) ELSE expect

\* Mutant: the flag for the label is not cleared after a line.
EndOfLineKeepsFlag(done) ==
  /\ lidx' = 0 /\ u32' = u32
  /\ plb' = done.at - 1

\* The end of a line: lidx and the flag are reset, plb stays where the loop
\* stopped.
EndOfLine(done) ==
  /\ lidx' = 0 /\ u32' = 0
  /\ plb' = done.at - 1

\* casper_tapcp_write_fpga_words_ascii, one character that is skipped or ends
\* the label.
SkipChar(c) ==
  /\ Writing("write_ascii") /\ Sends(c) /\ lidx < LineBufSize
  /\ \/ lidx = 0 /\ IsSpace(c) /\ UNCHANGED <<lidx, u32, plb>>
     \/ c.kind = "colon" /\ u32 = 0 /\ plb' = 0 /\ lidx' = 0 /\ u32' = 1
  /\ Receive(c)
  /\ UNCHANGED <<request, ptr, nleft, statics, version, pc, sent, wword, stored>>

\* One that is stored, and with a newline the whole line is processed.  What
\* line_buf holds beyond plb is never looked at.
StoreChar(c) ==
  /\ Writing("write_ascii") /\ Sends(c) /\ lidx < LineBufSize
  /\ ~(lidx = 0 /\ IsSpace(c)) /\ ~(c.kind = "colon" /\ u32 = 0)
  /\ line_buf' = SubSeq(line_buf, 1, plb) \o <<c>>
  /\ IF c.kind # "newline"
       THEN /\ plb' = plb + 1 /\ lidx' = lidx + 1
            /\ UNCHANGED <<handler, status, ptr, nleft, u32, stored>>
       ELSE LET done == ProcessLine(line_buf', nleft)
            IN /\ stored' = stored \o Writes(done.words)
               /\ IF done.full
                    THEN Fail /\ lidx' = lidx + 1 /\ UNCHANGED <<u32, plb>>
                    ELSE /\ ptr' = U32(ptr + WordSize * Len(done.words))
                         /\ nleft' = done.left
                         /\ EndOfLine(done)
                         /\ UNCHANGED <<handler, status>>
  /\ Receive(c)
  /\ UNCHANGED <<transfer, req, word, version, pc, sent, wword>>

LineTooLong(c) ==
  /\ Writing("write_ascii") /\ Sends(c) /\ lidx >= LineBufSize
  /\ Fail
  /\ UNCHANGED <<transfer, req, lidx, u32, statics, version, pc, len, sent, wvars>>

WriteChar ==
  \E k \in Kinds :
    LET c == [kind |-> k, id |-> got + 1]
    IN SkipChar(c) \/ StoreChar(c) \/ LineTooLong(c)

\* The call returns and the block is acknowledged.  After a full one the next
\* call starts at the character after the last; a short one ends the upload.
NextBlock ==
  /\ status = "open" /\ handler \in {"write_binary", "write_ascii"}
  /\ len = BlockSize /\ len' = 0 /\ plb' = lidx
  /\ UNCHANGED <<request, tapcp_state, statics, version, pc, sent,
                 wword, got, line, expect, stored>>

EndUpload ==
  /\ status = "open" /\ handler \in {"write_binary", "write_ascii"}
  /\ len < BlockSize
  /\ status' = "done" /\ Close /\ len' = 0
  /\ UNCHANGED <<transfer, req, lidx, u32, statics, version, pc, sent, wvars>>

GoneAway == Abandon /\ UNCHANGED wvars

Next ==
  \/ OpenAny \/ Forget
  \/ ReadStep /\ UNCHANGED wvars
  \/ WriteByte \/ WriteByteFull \/ WriteChar \/ NextBlock \/ EndUpload
  \/ GoneAway

Spec == Init /\ [][Next]_vars

-----------------------------------------------------------------------------
Uploading == req.write /\ status \in {"open", "done", "failed", "lost"} /\ Sensible(req)

Words == [k \in 1..Len(stored) |-> stored[k].word]

\* Words that fit between the start of the request and the end of its region.
Room == Cardinality({a \in Region(req) : a >= Start(req)}) \div WordSize

\* OwnMemory: a request whose offset is inside the device, or the address space, it
\* names, and whose end can be written in 32 bits, sends only from that memory
\* and stores only to it, whatever is uploaded and wherever its blocks end; a
\* read that starts past the end of its device sends nothing, although it is
\* granted.  The code does not confine all requests: an upload that starts past
\* the end has a negative number of bytes left, which bounds nothing, and a
\* read whose offset and length wrap when added passes the check.
OwnMemory ==
  /\ Reading => SentFrom \subseteq Region(req)
  /\ status \in {"open", "done"} /\ PastEnd(req) => sent = <<>>
  /\ Uploading => \A k \in 1..Len(stored) :
       stored[k].at..(stored[k].at + WordSize - 1) \subseteq Region(req)

\* StoredInPlace: the words of an upload are at successive addresses from the one
\* requested on; of a binary upload they are its bytes in order, four to a word,
\* wherever blocks end and whatever an abandoned upload left behind.
StoredInPlace ==
  Uploading =>
    /\ \A k \in 1..Len(stored) : stored[k].at = Start(req) + WordSize * (k - 1)
    /\ req.binary => Words = [k \in 1..(got \div WordSize) |->
                                [j \in 1..WordSize |-> WordSize * (k - 1) + j]]

\* LinesStored: an ASCII upload has stored the words of its complete lines, as the
\* documented format reads them, in order and once; one that ran into the end of
\* its region a part of them.
LinesStored ==
  Uploading /\ ~req.binary =>
    IF status = "failed" THEN IsPrefix(Words, expect) ELSE Words = expect

\* FailsOnlyWhenFull: an upload is cut off only when its region is full or, in
\* ASCII, when a line is longer than the buffer.
FailsOnlyWhenFull ==
  Uploading /\ status = "failed" =>
    \/ Len(stored) = Room
    \/ ~req.binary /\ Len(line) >= LineBufSize
=============================================================================
