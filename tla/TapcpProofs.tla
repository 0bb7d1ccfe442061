---------------------------- MODULE TapcpProofs -----------------------------
(***************************************************************************)
(* Transfers of memory through TAPCP: a read returns the dump it was asked *)
(* for, in order; an upload stores its words in order at the place it      *)
(* names, stays in its region and is cut off only where that is full.      *)
(*                                                                         *)
(* The invariant is in four parts: TapInv for the binary readers and the   *)
(* binary writer, WriteInv for the ASCII writer, ReadInv for the ASCII     *)
(* readers.  LinesInv is about uploads whose lines have labels.  The loop  *)
(* over a line and the dump are recursive functions: what they compute is  *)
(* shown by minimal counterexample (Least).                                *)
(***************************************************************************)
EXTENDS TapcpWrite, TLAPS, FiniteSetTheorems, SequenceTheorems, WellFoundedInduction

(***************************************************************************)
(* The arithmetic of the openers.                                          *)
(***************************************************************************)
LEMMA Modulus ==
  /\ AddrMod \in Nat /\ AddrMod > 0 /\ AddrMod % 4 = 0
  /\ AddrMod \div 2 \in Nat /\ AddrMod \div 2 <= AddrMod /\ FpgaBytes < AddrMod \div 2
  /\ FpgaBase \in Nat /\ FpgaBytes \in Nat /\ FpgaBase > 0 /\ FpgaBase % 4 = 0
  /\ FpgaBase + FpgaBytes <= AddrMod
  BY OpenAssumption DEF OpenAssumption, WordSize

LEMMA Exact ==
  ASSUME NEW n \in Nat, n < AddrMod
  PROVE  U32(n) = n
  BY Modulus DEF U32

LEMMA InRange ==
  ASSUME NEW n \in Int
  PROVE  U32(n) \in Nat /\ U32(n) < AddrMod
  BY Modulus DEF U32

LEMMA Signed ==
  ASSUME NEW n \in Nat, n < AddrMod
  PROVE  /\ Int32(n) \in Int /\ (Int32(n) = n \/ Int32(n) < 0)
         /\ n < AddrMod \div 2 => Int32(n) = n
<1>1. U32(n) = n
  BY Exact
<1> QED
  BY <1>1, Modulus DEF Int32

LEMMA Aligned ==
  ASSUME NEW n \in Nat
  PROVE  /\ AlignDown(n) \in Nat /\ AlignDown(n) <= n /\ n <= AlignDown(n) + 3
         /\ AlignDown(n) % 4 = 0 /\ AlignDown(n) = 4 * (n \div 4)
  BY DEF AlignDown, WordSize

LEMMA FourMore ==
  ASSUME NEW a \in Int, NEW b \in Int, a % 4 = 0, b % 4 = 0
  PROVE  (a + b) % 4 = 0
  OBVIOUS

\* A number that is a multiple of four less one to three bytes.
LEMMA AlignedUp ==
  ASSUME NEW n \in Nat, n < AddrMod
  PROVE  /\ AlignUp(n) \in Nat
         /\ AlignUp(n) = 0 \/ AlignUp(n) = 4 * ((n + 3) \div 4)
         /\ AlignUp(n) < AddrMod
<1>1. n + WordSize - 1 = n + 3
  BY DEF WordSize
<1>2. CASE n + 3 < AddrMod
  <2>1. U32(n + 3) = n + 3
    BY <1>2, Exact
  <2> QED
    BY <1>1, <1>2, <2>1, Aligned, Modulus DEF AlignUp
<1>3. CASE n + 3 >= AddrMod
  <2>1. U32(n + 3) \in 0..2
    <3>1. n + 3 = AddrMod + (n + 3 - AddrMod) /\ n + 3 - AddrMod \in 0..2
      BY <1>3, Modulus
    <3>2. AddrMod >= 4
      BY Modulus
    <3> QED
      BY <3>1, <3>2, Modulus DEF U32
  <2>2. AlignDown(U32(n + 3)) = 0
    BY <2>1 DEF AlignDown, WordSize
  <2> QED
    BY <1>1, <2>2, Modulus DEF AlignUp
<1> QED
  BY <1>2, <1>3, Modulus

(***************************************************************************)
(* What the openers put into tapcp_state, for the requests whose offset is *)
(* in their region and whose end can be written in 32 bits.                *)
(***************************************************************************)
Small(r) ==
  /\ r.cmd = "cpu" => Extent(r) < AddrMod \div 2
  /\ r.cmd = "dev" => Devices[r.name].length % WordSize = 0

OpensRead(r) ==
  LET o == OpenRequest(r)
  IN /\ Start(r) \in Nat /\ Extent(r) \in Nat /\ Start(r) + Extent(r) <= AddrMod
     /\ o.nleft \in Int /\ o.nleft <= Extent(r) /\ (Small(r) => o.nleft = Extent(r))
     /\ Handler(r) \in {"mem_bytes_binary", "mem_bytes_ascii"} =>
          o.ptr = Start(r) /\ (o.nleft >= 0 => o.nleft = Extent(r))
     /\ Handler(r) \in {"fpga_words_binary", "fpga_words_ascii"} =>
          /\ o.ptr \in Nat /\ o.ptr < AddrMod /\ AlignDown(o.ptr) = Start(r)
          /\ o.nleft = 4 * (Extent(r) \div 4) /\ o.nleft % 4 = 0
     /\ Start(r)..(Start(r) + o.nleft - 1) \subseteq Region(r)

\* What is known of a request.
LEMMA RequestIs ==
  ASSUME NEW r \in Requests
  PROVE  /\ r.cmd \in {"dev", "fpga", "cpu"} \cup DOMAIN Texts
         /\ r.off \in Nat /\ r.off < AddrMod /\ r.len \in Int /\ r.len >= -1 /\ r.len < AddrMod
         /\ r.write \in BOOLEAN /\ r.binary \in BOOLEAN
  BY ReadAssumption, Modulus DEF ReadAssumption, None

LEMMA DeviceIs ==
  ASSUME NEW d \in DOMAIN Devices
  PROVE  /\ Devices[d].offset \in Nat /\ Devices[d].length \in Nat /\ Devices[d].length > 0
         /\ Devices[d].offset % 4 = 0 /\ Devices[d].ro \in BOOLEAN
         /\ Devices[d].offset + Devices[d].length <= FpgaBytes
  BY OpenAssumption DEF OpenAssumption, WordSize

LEMMA TextIs ==
  /\ {"dev", "fpga", "cpu"} \cap DOMAIN Texts = {}
  /\ \A c \in DOMAIN Texts : /\ Texts[c].at \in Nat /\ Texts[c].bytes \in Nat
                             /\ Texts[c].bytes < AddrMod \div 2
  BY OpenAssumption DEF OpenAssumption

LEMMA OpensText ==
  ASSUME NEW r \in Requests, r.cmd \in DOMAIN Texts, OpenRequest(r).ok, ~r.write, Sensible(r)
  PROVE  OpensRead(r)
<1> DEFINE t == Texts[r.cmd]
<1>1. r.cmd \notin {"dev", "fpga", "cpu"} /\ t.at \in Nat /\ t.bytes \in Nat
      /\ t.bytes < AddrMod \div 2
  BY TextIs
<1>2. Start(r) = t.at /\ Extent(r) = t.bytes /\ Region(r) = t.at..(t.at + t.bytes - 1)
      /\ Handler(r) = "mem_bytes_binary"
  <2>1. Start(r) = t.at /\ Extent(r) = t.bytes /\ Handler(r) = "mem_bytes_binary"
    BY <1>1 DEF Start, Extent, Handler
  <2>2. Region(r) = Start(r)..(Start(r) + Extent(r) - 1)
    BY <1>1 DEF Region
  <2> QED
    BY <2>1, <2>2
<1>3. OpenRequest(r) = Opened(t.at, t.bytes)
  BY <1>1 DEF OpenRequest, OpenText
<1>4. t.at \in t.at..(t.at + t.bytes - 1) /\ t.at + t.bytes <= AddrMod
  BY <1>2 DEF Sensible
<1> HIDE DEF t
<1>5. U32(t.at) = t.at
  BY <1>1, <1>4, Exact, Modulus
<1> QED
  BY <1>1, <1>2, <1>3, <1>4, <1>5 DEF OpensRead, Opened

LEMMA OpensMem ==
  ASSUME NEW r \in Requests, r.cmd \in {"fpga", "cpu"}, OpenRequest(r).ok, ~r.write, Sensible(r)
  PROVE  OpensRead(r)
<1> DEFINE base == IF r.cmd = "fpga" THEN FpgaBase ELSE 0
           off == AlignDown(r.off)
           n == IF r.len = -1 THEN 1 ELSE r.len
           l == AlignUp(n)
<1>1. r.cmd \notin DOMAIN Texts /\ r.cmd # "dev"
  BY TextIs
<1>2. /\ r.off \in Nat /\ r.off < AddrMod /\ r.len \in Int /\ r.len >= -1 /\ r.len < AddrMod
      /\ AddrMod > 2 /\ AddrMod \in Nat
  BY RequestIs, Modulus
<1>3. n \in Nat /\ n < AddrMod
  <2>1. CASE r.len = -1
    BY <1>2, <2>1
  <2>2. CASE r.len # -1
    BY <1>2, <2>2
  <2> QED
    BY <2>1, <2>2
<1>4. off \in Nat /\ off % 4 = 0 /\ off <= r.off
  BY <1>2, Aligned
<1>5. l \in Nat /\ (l = 0 \/ l = 4 * ((n + 3) \div 4)) /\ l < AddrMod
  BY <1>3, AlignedUp
<1>6. OpenRequest(r) = IF l = 0 \/ (r.cmd = "fpga" /\ U32(off + l) > FpgaBytes) THEN Refused
                       ELSE Opened(base + off, Int32(l))
  BY <1>1 DEF OpenRequest, OpenMem, None
<1>7. l # 0 /\ (r.cmd = "fpga" => U32(off + l) <= FpgaBytes)
      /\ OpenRequest(r) = Opened(base + off, Int32(l))
  <2>1. ~(l = 0 \/ (r.cmd = "fpga" /\ U32(off + l) > FpgaBytes))
    BY <1>6 DEF Refused
  <2>2. U32(off + l) \in Nat
    BY <1>4, <1>5, InRange
  <2> QED
    BY <1>6, <2>1, <2>2, Modulus
<1>8. Start(r) = base + off /\ Extent(r) = 4 * ((n + 3) \div 4)
  <2>1. Start(r) = base + off
    <3>1. CASE r.cmd = "fpga"
      BY <1>1, <3>1 DEF Start
    <3>2. CASE r.cmd # "fpga"
      <4>1. Start(r) = off
        BY <1>1, <3>2 DEF Start
      <4> QED
        BY <1>4, <3>2, <4>1
    <3> QED
      BY <3>1, <3>2
  <2>2. Extent(r) = 4 * ((IF r.len = -1 THEN 4 ELSE r.len + 3) \div 4)
    BY <1>1 DEF Extent, None, WordSize
  <2>3. (IF r.len = -1 THEN 4 ELSE r.len + 3) = n + 3
    BY <1>2
  <2> QED
    BY <2>1, <2>2, <2>3
<1>9. Handler(r) = IF r.cmd = "cpu" THEN IF r.binary THEN "mem_bytes_binary" ELSE "mem_bytes_ascii"
                   ELSE IF r.binary THEN "fpga_words_binary" ELSE "fpga_words_ascii"
  BY <1>1 DEF Handler
<1>10. Region(r) = IF r.cmd = "fpga" THEN FpgaBase..(FpgaBase + FpgaBytes - 1) ELSE 0..(AddrMod - 1)
  BY <1>1 DEF Region
<1>11. Start(r) \in Region(r) /\ Start(r) + Extent(r) <= AddrMod
  BY DEF Sensible
<1> HIDE DEF base, off, n, l
<1>12. Extent(r) = l /\ base + off + l <= AddrMod /\ base \in Nat /\ base % 4 = 0
  BY <1>5, <1>7, <1>8, <1>11, Modulus DEF base
<1>13. U32(base + off) = base + off /\ base + off < AddrMod /\ base + off \in Nat
  <2>1. base + off < AddrMod /\ base + off \in Nat
    BY <1>2, <1>4, <1>5, <1>7, <1>12
  <2> QED
    BY <2>1, Exact
<1>14. /\ Int32(l) \in Int /\ (Int32(l) = l \/ Int32(l) < 0) /\ Int32(l) <= l
       /\ l < AddrMod \div 2 => Int32(l) = l
  BY <1>5, Signed
<1>15. r.cmd = "fpga" => off + l <= FpgaBytes /\ l < AddrMod \div 2
  <2>1. r.cmd = "fpga" => off + l < AddrMod
    BY <1>4, <1>5, <1>12, Modulus DEF base
  <2>2. r.cmd = "fpga" => U32(off + l) = off + l
    BY <1>4, <1>5, <2>1, Exact
  <2> QED
    BY <1>4, <1>5, <1>7, <2>2, Modulus
<1>16. Small(r) => Int32(l) = l
  BY <1>12, <1>14, <1>15 DEF Small
<1>17. r.cmd = "fpga" => /\ AlignDown(base + off) = base + off /\ Int32(l) % 4 = 0
                         /\ Int32(l) = 4 * (Extent(r) \div 4)
  <2>1. (base + off) % 4 = 0 /\ l % 4 = 0
    <3>1. (n + 3) \div 4 \in Nat
      BY <1>3
    <3>2. l % 4 = 0
      BY <1>5, <3>1
    <3> QED
      BY <1>4, <1>12, <3>2, FourMore
  <2>2. QED
    <3>1. AlignDown(base + off) = base + off
      BY <1>13, <2>1 DEF AlignDown, WordSize
    <3>2. r.cmd = "fpga" => Int32(l) = l
      BY <1>14, <1>15
    <3>3. l = 4 * (l \div 4)
      BY <1>5, <2>1
    <3> QED
      BY <1>12, <2>1, <3>1, <3>2, <3>3
<1>18. Start(r)..(Start(r) + Int32(l) - 1) \subseteq Region(r)
  <2>1. CASE r.cmd = "fpga"
    <3>1. base = FpgaBase /\ Region(r) = FpgaBase..(FpgaBase + FpgaBytes - 1)
      BY <1>10, <2>1 DEF base
    <3> QED
      BY <1>4, <1>5, <1>8, <1>14, <1>15, <2>1, <3>1, Modulus
  <2>2. CASE r.cmd # "fpga"
    BY <1>5, <1>8, <1>10, <1>12, <1>13, <1>14, <2>2, Modulus
  <2> QED
    BY <2>1, <2>2
<1>19. OpenRequest(r).nleft = Int32(l) /\ OpenRequest(r).ptr = base + off
  BY <1>7, <1>13 DEF Opened
<1> QED
  BY <1>8, <1>9, <1>11, <1>12, <1>13, <1>14, <1>16, <1>17, <1>18, <1>19, <1>5 DEF OpensRead

LEMMA FlagInAddress ==
  ASSUME NEW a \in Nat, a % 4 = 0, a < AddrMod, NEW f \in {0, 1}
  PROVE  a + f < AddrMod /\ a + f \in Nat /\ AlignDown(a + f) = a
  BY Modulus DEF AlignDown, WordSize

\* A device, in exact numbers.
LEMMA DeviceAt ==
  ASSUME NEW r \in Requests, r.cmd = "dev", Sensible(r)
  PROVE  LET d == Devices[r.name]
             b == FpgaBase + d.offset
         IN /\ r.name \in DOMAIN Devices /\ r.cmd \notin DOMAIN Texts
            /\ b \in Nat /\ b % 4 = 0 /\ b + d.length <= FpgaBase + FpgaBytes
            /\ Start(r) = b + 4 * r.off /\ Region(r) = b..(b + d.length - 1)
            /\ 4 * r.off < d.length /\ d.length \in Nat /\ d.length \div 4 \in Nat
            /\ d.length <= FpgaBytes
            /\ r.off <= d.length \div 4 /\ r.off \in Nat
            /\ Start(r) \in Nat /\ Start(r) % 4 = 0 /\ Start(r) < AddrMod
            /\ \A f \in {0, 1} : f = (IF d.ro THEN 1 ELSE 0) =>
                 U32(DevAddr(r.name) + WordSize * r.off) = Start(r) + f
<1> DEFINE d == Devices[r.name]
           b == FpgaBase + d.offset
<1>1. r.name \in DOMAIN Devices /\ r.cmd \notin DOMAIN Texts
  BY TextIs DEF Sensible
<1>2. /\ d.offset \in Nat /\ d.length \in Nat /\ d.length > 0 /\ d.offset % 4 = 0
      /\ d.ro \in BOOLEAN /\ d.offset + d.length <= FpgaBytes
  BY <1>1, DeviceIs
<1>3. b \in Nat /\ b % 4 = 0 /\ b + d.length <= FpgaBase + FpgaBytes /\ b < AddrMod
  <2>1. b % 4 = 0
    BY <1>2, Modulus, FourMore
  <2> QED
    BY <1>2, <2>1, Modulus
<1>4. r.off \in Nat /\ d.length <= FpgaBytes
  BY <1>2, RequestIs, Modulus
<1>5. Start(r) = b + 4 * r.off /\ Region(r) = b..(b + d.length - 1)
  BY <1>1 DEF Start, Region, WordSize
<1> HIDE DEF d, b
<1>6. 4 * r.off < d.length /\ r.off <= d.length \div 4 /\ d.length \div 4 \in Nat
  <2>1. b + 4 * r.off \in b..(b + d.length - 1)
    BY <1>5 DEF Sensible
  <2>2. 4 * r.off < d.length
    BY <1>2, <1>3, <1>4, <2>1
  <2> QED
    BY <1>2, <1>4, <2>2
<1>7. Start(r) \in Nat /\ Start(r) % 4 = 0 /\ Start(r) < AddrMod
  <2> DEFINE q == 4 * r.off
  <2>1. q % 4 = 0 /\ q \in Nat /\ q < d.length /\ Start(r) = b + q
    BY <1>4, <1>5, <1>6
  <2> HIDE DEF q
  <2>2. (b + q) % 4 = 0
    BY <1>3, <2>1, FourMore
  <2>3. b + q \in Nat /\ b + q < AddrMod
    BY <1>2, <1>3, <2>1, Modulus
  <2> QED
    BY <2>1, <2>2, <2>3
<1>8. ASSUME NEW f \in {0, 1}, f = (IF d.ro THEN 1 ELSE 0)
      PROVE  U32(DevAddr(r.name) + WordSize * r.off) = Start(r) + f
  <2>1. DevAddr(r.name) = U32(b + f)
    BY <1>8 DEF DevAddr, b, d
  <2>2. U32(b + f) = b + f
    <3>1. b + f < AddrMod /\ b + f \in Nat
      BY <1>3, FlagInAddress
    <3> QED
      BY <3>1, Exact
  <2>3. DevAddr(r.name) + WordSize * r.off = Start(r) + f
    BY <1>3, <1>4, <1>5, <2>1, <2>2 DEF WordSize
  <2>4. Start(r) + f < AddrMod /\ Start(r) + f \in Nat
    BY <1>7, FlagInAddress
  <2> QED
    BY <2>3, <2>4, Exact
<1> QED
  BY <1>1, <1>2, <1>3, <1>4, <1>5, <1>6, <1>7, <1>8 DEF b, d

\* n words at word offset off of a device of len bytes at b.
LEMMA InDevice ==
  ASSUME NEW b \in Nat, NEW len0 \in Nat, NEW off \in Nat, NEW n \in Nat,
         b + len0 <= FpgaBase + FpgaBytes, len0 <= FpgaBytes, off + n <= len0 \div 4
  PROVE  /\ 4 * (off + n) <= len0 /\ 4 * n <= len0 - 4 * off /\ off + n < AddrMod /\ n < AddrMod
         /\ 4 * n \in Nat /\ 4 * n < AddrMod \div 2 /\ 4 * n < AddrMod
         /\ b + 4 * off + 4 * n <= AddrMod
         /\ (b + 4 * off)..(b + 4 * off + 4 * n - 1) \subseteq b..(b + len0 - 1)
<1>1. 4 * (off + n) <= len0
  OBVIOUS
<1> QED
  BY <1>1, Modulus

LEMMA WholeDevice ==
  ASSUME NEW len0 \in Nat, NEW off \in Nat, NEW n \in Nat, off + n = len0 \div 4, len0 % 4 = 0
  PROVE  4 * n = len0 - 4 * off
  OBVIOUS

LEMMA NoWrap ==
  ASSUME NEW b \in Nat, NEW off \in Nat, NEW n \in Nat, b > 0, b + 4 * off + 4 * n <= AddrMod
  PROVE  off + n < AddrMod /\ off + n \in Nat
  BY Modulus

LEMMA RestOfDevice ==
  ASSUME NEW b \in Nat, NEW len0 \in Nat, NEW off \in Nat, NEW n \in Nat, 4 * off < len0,
         off + n = len0 \div 4
  PROVE  /\ b + len0 - 1 \in Nat /\ (b + len0 - 1) + 1 >= b + 4 * off
         /\ ((b + len0 - 1) + 1 - (b + 4 * off)) \div 4 = (4 * n) \div 4
         /\ \A a : a \in b..(b + len0 - 1) /\ a >= b + 4 * off <=>
                      a \in (b + 4 * off)..(b + len0 - 1)
<1>1. (b + len0 - 1) + 1 - (b + 4 * off) = len0 - 4 * off
  OBVIOUS
<1>2. (len0 - 4 * off) \div 4 = n /\ (4 * n) \div 4 = n
  OBVIOUS
<1>3. b + 4 * off >= b
  OBVIOUS
<1> QED
  BY <1>1, <1>2, <1>3

LEMMA OpensDev ==
  ASSUME NEW r \in Requests, r.cmd = "dev", OpenRequest(r).ok, ~r.write, Sensible(r)
  PROVE  OpensRead(r)
<1> DEFINE d == Devices[r.name]
           b == FpgaBase + d.offset
           words == d.length \div 4
           n == IF r.len \in {-1, 0} THEN U32(words - r.off) ELSE r.len
           f == IF d.ro THEN 1 ELSE 0
<1>1. /\ r.name \in DOMAIN Devices /\ r.cmd \notin DOMAIN Texts
      /\ b \in Nat /\ b % 4 = 0 /\ b + d.length <= FpgaBase + FpgaBytes
      /\ Start(r) = b + 4 * r.off /\ Region(r) = b..(b + d.length - 1)
      /\ 4 * r.off < d.length /\ d.length \in Nat /\ words \in Nat /\ d.length <= FpgaBytes
      /\ r.off <= words /\ r.off \in Nat
      /\ Start(r) \in Nat /\ Start(r) % 4 = 0 /\ Start(r) < AddrMod
  BY DeviceAt
<1>2. /\ r.len \in Int /\ r.len >= -1 /\ r.len < AddrMod /\ r.off < AddrMod
  BY RequestIs
<1>3. f \in {0, 1} /\ U32(DevAddr(r.name) + WordSize * r.off) = Start(r) + f
  <2>1. f \in {0, 1}
    OBVIOUS
  <2> QED
    BY <2>1, DeviceAt
<1>4. OpenRequest(r) = IF n = 0 \/ U32(r.off + n) > words THEN Refused
                       ELSE Opened(DevAddr(r.name) + WordSize * r.off, Int32(WordSize * n))
  BY <1>1 DEF OpenRequest, OpenDev, None, WordSize
<1>5. Extent(r) = IF r.len \in {-1, 0} THEN d.length - 4 * r.off ELSE 4 * r.len
  BY <1>1 DEF Extent, None, WordSize
<1>6. Handler(r) \in {"fpga_words_binary", "fpga_words_ascii"}
  BY <1>1 DEF Handler
<1>7. Small(r) => d.length % 4 = 0
  BY DEF Small, WordSize
<1>8. Start(r) + Extent(r) <= AddrMod
  BY DEF Sensible
<1>14. d.offset \in Nat
  BY <1>1, DeviceIs
<1> HIDE DEF d, b, f, words
<1>9. n # 0 /\ ~(U32(r.off + n) > words)
      /\ OpenRequest(r).ptr = Start(r) + f /\ OpenRequest(r).nleft = Int32(WordSize * n)
  BY <1>3, <1>4 DEF Refused, Opened
<1>10. /\ n \in Nat /\ n > 0 /\ r.off + n <= words /\ 4 * n <= Extent(r)
       /\ (d.length % 4 = 0 => 4 * n = Extent(r)) /\ Extent(r) \in Nat /\ n = Extent(r) \div 4
  <2>1. CASE r.len \in {-1, 0}
    <3> DEFINE m == words - r.off
    <3>1. m \in Nat /\ r.off + m = words /\ r.off + m <= d.length \div 4
      BY <1>1 DEF words
    <3> HIDE DEF m
    <3>2. m < AddrMod /\ 4 * m <= d.length - 4 * r.off
      BY <1>1, <3>1, InDevice
    <3>3. n = m
      BY <2>1, <3>1, <3>2, Exact DEF m
    <3>4. Extent(r) = d.length - 4 * r.off
      BY <1>5, <2>1
    <3>5. d.length % 4 = 0 => 4 * m = d.length - 4 * r.off
      BY <1>1, <3>1, WholeDevice DEF words
    <3>6. d.length - 4 * r.off \in Nat /\ m = (d.length - 4 * r.off) \div 4
      <4> DEFINE a == d.length
                 o == r.off
      <4>1. a \in Nat /\ o \in Nat /\ 4 * o < a /\ o + m = a \div 4
        BY <1>1, <3>1 DEF words
      <4> HIDE DEF a, o
      <4>2. a - 4 * o \in Nat /\ m = (a - 4 * o) \div 4
        BY <3>1, <4>1
      <4> QED
        BY <4>2 DEF a, o
    <3> HIDE DEF n
    <3>7. m > 0
      BY <1>9, <3>1, <3>3
    <3> QED
      BY <1>1, <3>1, <3>2, <3>3, <3>4, <3>5, <3>6, <3>7
  <2>2. CASE r.len \notin {-1, 0}
    <3>1. n = r.len /\ n > 0 /\ n \in Nat /\ Extent(r) = 4 * n
      BY <1>2, <1>5, <2>2
    <3> HIDE DEF n
    <3>2. b + 4 * r.off + 4 * n <= AddrMod /\ b > 0
      <4>1. b > 0
        BY <1>1, <1>14, Modulus DEF b
      <4> QED
        BY <1>1, <1>8, <3>1, <4>1
    <3>3. r.off + n < AddrMod /\ r.off + n \in Nat
      BY <1>1, <3>1, <3>2, NoWrap
    <3>4. U32(r.off + n) = r.off + n
      BY <3>3, Exact
    <3>5. r.off + n <= words
      BY <1>1, <1>9, <3>3, <3>4
    <3> QED
      BY <3>1, <3>5
  <2> QED
    BY <2>1, <2>2
<1> HIDE DEF n
<1>11. /\ 4 * n < AddrMod \div 2 /\ 4 * n \in Nat /\ 4 * n < AddrMod
       /\ (b + 4 * r.off)..(b + 4 * r.off + 4 * n - 1) \subseteq b..(b + d.length - 1)
  BY <1>1, <1>10, InDevice DEF words
<1>15. Int32(WordSize * n) = 4 * n
  BY <1>11, Signed DEF WordSize
<1>12. Start(r) + f < AddrMod /\ Start(r) + f \in Nat /\ AlignDown(Start(r) + f) = Start(r)
  BY <1>1, <1>3, FlagInAddress
<1>13. Start(r)..(Start(r) + 4 * n - 1) \subseteq Region(r)
  BY <1>1, <1>11
<1>16. (4 * n) % 4 = 0 /\ 4 * n \in Int
  BY <1>10
<1> QED
  BY <1>1, <1>6, <1>7, <1>8, <1>9, <1>10, <1>12, <1>13, <1>15, <1>16 DEF OpensRead

\* A request that is granted and does not write.
LEMMA OpensToRead ==
  ASSUME NEW r \in Requests, OpenRequest(r).ok, ~r.write, Sensible(r)
  PROVE  OpensRead(r)
  BY OpensText, OpensMem, OpensDev, RequestIs

\* A request that is granted and writes.
OpensWrite(r) ==
  LET o == OpenRequest(r)
  IN /\ Start(r) \in Nat /\ o.nleft \in Nat /\ Start(r) + o.nleft <= AddrMod /\ o.ptr = Start(r)
     /\ Start(r) % 4 = 0
     /\ Start(r)..(Start(r) + o.nleft - 1) \subseteq Region(r)
     /\ \E e \in Nat : /\ {a \in Region(r) : a >= Start(r)} = Start(r)..e
                       /\ e + 1 >= Start(r) /\ (e + 1 - Start(r)) \div 4 = o.nleft \div 4

LEMMA OpensToWrite ==
  ASSUME NEW r \in Requests, OpenRequest(r).ok, r.write, Sensible(r)
  PROVE  OpensWrite(r)
<1>1. r.cmd \in {"dev", "fpga"} /\ r.cmd \notin DOMAIN Texts
  BY RequestIs, TextIs DEF OpenRequest, OpenText, OpenMem, Refused
<1>2. CASE r.cmd = "dev"
  <2> DEFINE d == Devices[r.name]
             b == FpgaBase + d.offset
             words == d.length \div 4
             n == U32(words - r.off)
             f == IF d.ro THEN 1 ELSE 0
  <2>1. /\ r.name \in DOMAIN Devices
        /\ b \in Nat /\ b % 4 = 0 /\ b + d.length <= FpgaBase + FpgaBytes
        /\ Start(r) = b + 4 * r.off /\ Region(r) = b..(b + d.length - 1)
        /\ 4 * r.off < d.length /\ d.length \in Nat /\ words \in Nat /\ d.length <= FpgaBytes
        /\ r.off <= words /\ r.off \in Nat
        /\ Start(r) \in Nat /\ Start(r) % 4 = 0 /\ Start(r) < AddrMod
    BY <1>2, DeviceAt
  <2>2. OpenRequest(r) = IF d.ro \/ n = 0 THEN Refused
                         ELSE Opened(DevAddr(r.name) + WordSize * r.off, Int32(WordSize * n))
    BY <1>1, <1>2, <2>1 DEF OpenRequest, OpenDev, WordSize
  <2>3. ~d.ro /\ n # 0 /\ OpenRequest(r).ptr = U32(DevAddr(r.name) + WordSize * r.off)
        /\ OpenRequest(r).nleft = Int32(WordSize * n)
    BY <2>2 DEF Refused, Opened
  <2>4. U32(DevAddr(r.name) + WordSize * r.off) = Start(r) + 0
    <3>1. 0 = f /\ 0 \in {0, 1}
      BY <2>3
    <3> QED
      BY <1>2, <3>1, DeviceAt
  <2> HIDE DEF d, b, f, words
  <2>5. words - r.off \in Nat /\ r.off + (words - r.off) = words
    BY <2>1, SMTT(30)
  <2>6. n = words - r.off
    <3> DEFINE m == words - r.off
    <3>1. m \in Nat /\ r.off + m <= d.length \div 4
      BY <2>1, <2>5 DEF words
    <3> HIDE DEF m
    <3>2. m < AddrMod
      BY <2>1, <3>1, InDevice
    <3> QED
      BY <3>1, <3>2, Exact DEF m
  <2>7. n \in Nat /\ r.off + n = d.length \div 4 /\ r.off + n <= d.length \div 4
    BY <2>1, <2>5, <2>6 DEF words
  <2> HIDE DEF n
  <2>8. /\ 4 * n \in Nat /\ 4 * n < AddrMod \div 2 /\ 4 * n < AddrMod
        /\ b + 4 * r.off + 4 * n <= AddrMod
        /\ (b + 4 * r.off)..(b + 4 * r.off + 4 * n - 1) \subseteq b..(b + d.length - 1)
    BY <2>1, <2>7, InDevice
  <2>9. Int32(WordSize * n) = 4 * n
    BY <2>8, Signed DEF WordSize
  <2>10. OpenRequest(r).nleft = 4 * n /\ OpenRequest(r).ptr = Start(r)
    BY <2>1, <2>3, <2>4, <2>9
  <2>11. \E e \in Nat : /\ {a \in Region(r) : a >= Start(r)} = Start(r)..e
                        /\ e + 1 >= Start(r) /\ (e + 1 - Start(r)) \div 4 = (4 * n) \div 4
    <3> DEFINE e == b + d.length - 1
               len0 == d.length
               off == r.off
    <3>0. len0 \in Nat /\ off \in Nat /\ 4 * off < len0 /\ off + n = len0 \div 4
      BY <2>1, <2>7
    <3> HIDE DEF len0, off
    <3>1. /\ b + len0 - 1 \in Nat /\ (b + len0 - 1) + 1 >= b + 4 * off
          /\ ((b + len0 - 1) + 1 - (b + 4 * off)) \div 4 = (4 * n) \div 4
          /\ \A a : a \in b..(b + len0 - 1) /\ a >= b + 4 * off <=>
                       a \in (b + 4 * off)..(b + len0 - 1)
      BY <2>1, <2>7, <3>0, RestOfDevice
    <3>2. Start(r) = b + 4 * r.off /\ Region(r) = b..e
      BY <2>1
    <3>3. b + len0 - 1 = e /\ off = r.off
      BY DEF len0, off
    <3> HIDE DEF e
    <3>4. {a \in b..e : a >= b + 4 * r.off} = (b + 4 * r.off)..e
      BY <3>1, <3>3
    <3>5. e \in Nat /\ e + 1 >= Start(r) /\ (e + 1 - Start(r)) \div 4 = (4 * n) \div 4
      BY <3>1, <3>2, <3>3
    <3> QED
      BY <3>2, <3>4, <3>5
  <2> QED
    BY <2>1, <2>8, <2>10, <2>11 DEF OpensWrite
<1>3. CASE r.cmd = "fpga"
  <2> DEFINE off == AlignDown(r.off)
             n == FpgaBytes - off
  <2>1. off \in Nat /\ off % 4 = 0
    BY RequestIs, Aligned
  <2>2. Start(r) = FpgaBase + off /\ Region(r) = FpgaBase..(FpgaBase + FpgaBytes - 1)
    BY <1>1, <1>3 DEF Start, Region
  <2>3. OpenRequest(r) = Opened(FpgaBase + off, Int32(n))
    BY <1>1, <1>3 DEF OpenRequest, OpenMem
  <2> HIDE DEF off
  <2>4. n \in Nat /\ n < AddrMod \div 2 /\ n < AddrMod /\ n > 0
    BY <2>1, <2>2, Modulus DEF Sensible
  <2>5. Int32(n) = n
    BY <2>4, Signed
  <2>6. U32(FpgaBase + off) = FpgaBase + off
    BY <2>1, <2>4, Exact, Modulus
  <2>7. OpenRequest(r).nleft = n /\ OpenRequest(r).ptr = Start(r)
    BY <2>2, <2>3, <2>5, <2>6 DEF Opened
  <2>8. Start(r) \in Nat /\ Start(r) % 4 = 0 /\ Start(r) + n <= AddrMod
    BY <2>1, <2>2, Modulus, FourMore
  <2>9. Start(r)..(Start(r) + n - 1) \subseteq Region(r)
    BY <2>1, <2>2, Modulus
  <2>10. \E e \in Nat : /\ {a \in Region(r) : a >= Start(r)} = Start(r)..e
                        /\ e + 1 >= Start(r) /\ (e + 1 - Start(r)) \div 4 = n \div 4
    <3> DEFINE e == FpgaBase + FpgaBytes - 1
    <3>1. e \in Nat /\ e + 1 >= Start(r) /\ e + 1 - Start(r) = n
      BY <2>1, <2>2, <2>4, Modulus
    <3>2. {a \in Region(r) : a >= Start(r)} = Start(r)..e
      BY <2>1, <2>2, Modulus
    <3> QED
      BY <3>1, <3>2
  <2> QED
    BY <2>4, <2>7, <2>8, <2>9, <2>10 DEF OpensWrite
<1> QED
  BY <1>1, <1>2, <1>3

(***************************************************************************)
(* The inductive invariant.                                                *)
(***************************************************************************)
Datum0 == [transfer : Nat, at : Nat, version : Nat]
Byte == [of : Datum0, byte : 0..3]

\* The bytes the opener granted.
Total == OpenRequest(req).nleft

FpgaWords == Handler(req) = "fpga_words_binary"

\* Where the k-th byte of a read comes from: the address of the read and the
\* place of the byte in what was read.
From(k) == Start(req) + (IF FpgaWords THEN AlignDown(k - 1) ELSE k - 1)
Place(k) == IF FpgaWords THEN (k - 1) % 4 ELSE 0

Counters ==
  /\ transfer \in Nat /\ version \in Nat /\ got \in Nat /\ len \in 0..BlockSize
  /\ pc \in {"loop", "copy"} /\ (pc = "copy" => handler \in Ascii /\ len < BlockSize)
  /\ wword \in Seq(Nat) /\ Len(wword) = 4

\* A session has a handler, and its request was granted.
Granted ==
  /\ handler # "none" => status = "open"
  /\ status \in {"open", "done", "failed", "lost"} => req \in Requests /\ OpenRequest(req).ok
  /\ status = "open" => handler = Handler(req)
  /\ status = "idle" => got = 0 /\ stored = <<>>

\* A binary read has returned the bytes from the first on, and each word once.
BytesSent ==
  Reading /\ Handler(req) \in Binary =>
    /\ sent \in Seq(Byte) /\ (Len(sent) <= Total \/ sent = <<>>)
    /\ \A k \in 1..Len(sent) : /\ sent[k].of.transfer = transfer
                               /\ sent[k].of.at = From(k) /\ sent[k].byte = Place(k)
    /\ FpgaWords => \A j, k \in 1..Len(sent) :
                      sent[j].of.at = sent[k].of.at => sent[j].of = sent[k].of
    /\ status = "done" => Len(sent) = Total \/ Total < 0

\* nleft and ptr say where a binary reader goes on; in the middle of a word ptr is
\* at the next one, and word is what was read of this one.
Reader ==
  status = "open" /\ handler \in Binary /\ Sensible(req) =>
    /\ nleft = Total - Len(sent) /\ (nleft >= 0 \/ sent = <<>>)
    /\ ~FpgaWords /\ nleft > 0 => ptr = Start(req) + Len(sent)
    /\ FpgaWords /\ AlignDown(nleft) > 0 =>
         /\ ptr \in Nat /\ ptr < AddrMod
         /\ AlignDown(ptr) = Start(req) + Total - AlignDown(nleft)
    /\ FpgaWords /\ nleft % 4 # 0 =>
         /\ word \in Datum0 /\ word.transfer = transfer
         /\ word.at = Start(req) + AlignDown(Len(sent))
         /\ \A k \in 1..Len(sent) : sent[k].of.at = word.at => sent[k].of = word

\* nleft and ptr say where the binary writer goes on; what is left of a word is at
\* the end of wword.
Writer ==
  status = "open" /\ handler = "write_binary" /\ Sensible(req) =>
    /\ nleft = Total - got /\ nleft >= 0
    /\ u32 \in Nat /\ u32 < AddrMod /\ u32 % 4 = got % 4
    /\ nleft > 0 => ptr = Start(req) + AlignDown(got)
    /\ \A j \in 1..(got % 4) : wword[4 - (got % 4) + j] = AlignDown(got) + j

Stored(k) == [at |-> Start(req) + 4 * (k - 1), word |-> [j \in 1..4 |-> 4 * (k - 1) + j]]

\* A binary upload has stored the words from the first on.
WordsStored ==
  Uploading /\ req.binary =>
    /\ stored \in Seq([at : Nat, word : Seq(Nat)])
    /\ Len(stored) = got \div 4 /\ got <= Total
    /\ \A k \in 1..Len(stored) : stored[k] = Stored(k)
    /\ status = "failed" => got = Total

TapInv == Counters /\ Granted /\ BytesSent /\ Reader /\ Writer /\ WordsStored

(***************************************************************************)
(* Handlers.                                                               *)
(***************************************************************************)
LEMMA HandlerIs ==
  ASSUME NEW r \in Requests, OpenRequest(r).ok
  PROVE  /\ Handler(r) \in Binary \cup Ascii => ~r.write
         /\ r.write => Handler(r) = IF r.binary THEN "write_binary" ELSE "write_ascii"
         /\ ~r.write => Handler(r) \in Binary \cup Ascii
         /\ Handler(r) # "none"
<1>1. r.write => r.cmd \notin DOMAIN Texts /\ r.cmd # "cpu"
  BY TextIs DEF OpenRequest, OpenText, OpenMem, Refused
<1>2. r.write \in BOOLEAN /\ r.binary \in BOOLEAN
  BY RequestIs
<1>3. Handler(r) \in {"mem_bytes_binary", "mem_bytes_ascii", "write_binary", "write_ascii",
                      "fpga_words_binary", "fpga_words_ascii"}
  <2>1. CASE r.cmd \in DOMAIN Texts
    BY <2>1, TextIs DEF Handler
  <2>2. CASE r.cmd = "cpu"
    BY <2>2, TextIs DEF Handler
  <2>3. CASE r.cmd \notin DOMAIN Texts /\ r.cmd # "cpu" /\ r.write
    BY <2>3 DEF Handler
  <2>4. CASE r.cmd \notin DOMAIN Texts /\ r.cmd # "cpu" /\ ~r.write
    BY <2>4 DEF Handler
  <2> QED
    BY <1>2, <2>1, <2>2, <2>3, <2>4
<1>4. r.write => Handler(r) = IF r.binary THEN "write_binary" ELSE "write_ascii"
  BY <1>1 DEF Handler
<1>5. ~r.write => Handler(r) \notin {"write_binary", "write_ascii"}
  <2>1. CASE r.cmd \in DOMAIN Texts
    BY <2>1, TextIs DEF Handler
  <2>2. CASE r.cmd = "cpu"
    BY <2>2, TextIs DEF Handler
  <2>4. CASE r.cmd \notin DOMAIN Texts /\ r.cmd # "cpu" /\ ~r.write
    BY <2>4 DEF Handler
  <2> QED
    BY <1>2, <2>1, <2>2, <2>4
<1> QED
  BY <1>2, <1>3, <1>4, <1>5 DEF Binary, Ascii

\* The handler of the session, and the kind of its request.
LEMMA SessionIs ==
  ASSUME Granted, status = "open"
  PROVE  /\ req \in Requests /\ OpenRequest(req).ok /\ handler = Handler(req) /\ handler # "none"
         /\ handler \in Binary \cup Ascii <=> ~req.write
         /\ handler = "write_binary" <=> req.write /\ req.binary
         /\ handler = "write_ascii" <=> req.write /\ ~req.binary
<1>1. req \in Requests /\ OpenRequest(req).ok /\ handler = Handler(req)
  BY DEF Granted
<1>2. req.write \in BOOLEAN /\ req.binary \in BOOLEAN
  BY <1>1, RequestIs
<1> QED
  BY <1>1, <1>2, HandlerIs DEF Binary, Ascii

(***************************************************************************)
(* Steps that neither a binary reader nor the binary writer takes.         *)
(***************************************************************************)
\* The session goes on, or it ends.
GoesOn ==
  /\ req' = req
  /\ \/ UNCHANGED <<status, handler>>
     \/ status' \in {"done", "failed", "lost"} /\ handler' = "none"

LEMMA GrantedStays ==
  ASSUME Granted, status = "open", GoesOn
  PROVE  Granted'
  BY SessionIs DEF Granted, GoesOn

LEMMA AsciiStep ==
  ASSUME TapInv, status = "open", handler \in Ascii \cup {"write_ascii"}, GoesOn
  PROVE  BytesSent' /\ Reader' /\ Writer' /\ WordsStored'
<1>1. /\ req \in Requests /\ handler = Handler(req) /\ handler # "none"
      /\ handler \in Binary \cup Ascii <=> ~req.write
      /\ handler = "write_binary" <=> req.write /\ req.binary
  BY SessionIs DEF TapInv
<1>2. Handler(req) \notin Binary /\ ~(req.write /\ req.binary)
  BY <1>1 DEF Binary, Ascii
<1>3. BytesSent'
  BY <1>2 DEF BytesSent, GoesOn
<1>4. Reader' /\ Writer'
  BY <1>1, <1>2 DEF Reader, Writer, GoesOn, Binary
<1>5. WordsStored'
  BY <1>2 DEF WordsStored, Uploading, GoesOn
<1> QED
  BY <1>3, <1>4, <1>5

(***************************************************************************)
(* The binary readers.                                                     *)
(***************************************************************************)
LEMMA ReadingIs ==
  ASSUME TapInv, status = "open", handler \in Binary, Sensible(req)
  PROVE  /\ OpensRead(req) /\ Reading /\ handler = Handler(req) /\ ~req.write
         /\ Start(req) \in Nat /\ Total \in Int /\ Start(req) + Total <= AddrMod
         /\ FpgaWords => Total % 4 = 0
<1>1. /\ req \in Requests /\ OpenRequest(req).ok /\ handler = Handler(req) /\ ~req.write
  BY SessionIs DEF TapInv, Binary
<1>2. OpensRead(req)
  BY <1>1, OpensToRead
<1> QED
  BY <1>1, <1>2, Modulus DEF OpensRead, Reading, Total, FpgaWords

LEMMA MemByteStep ==
  ASSUME TapInv, MemByte
  PROVE  BytesSent' /\ Reader'
<1> DEFINE L == Len(sent)
           T == Total
           S == Start(req)
           c == [of |-> Read(ptr), byte |-> 0]
<1>1. /\ status = "open" /\ handler = "mem_bytes_binary" /\ nleft > 0
      /\ sent' = Append(sent, c) /\ ptr' = U32(ptr + 1) /\ nleft' = nleft - 1
      /\ UNCHANGED <<status, handler, req, transfer>>
  BY DEF MemByte, Looping, Emit, request
<1>2. CASE ~Sensible(req)
  BY <1>1, <1>2 DEF BytesSent, Reader, Reading
<1>3. CASE Sensible(req)
  <2>1. /\ Reading /\ handler = Handler(req) /\ ~FpgaWords /\ S \in Nat /\ T \in Int
        /\ S + T <= AddrMod
    BY <1>1, <1>3, ReadingIs DEF Binary, FpgaWords
  <2>2. sent \in Seq(Byte) /\ L \in Nat
        /\ \A k \in 1..L : sent[k].of.transfer = transfer /\ sent[k].of.at = From(k)
                           /\ sent[k].byte = Place(k)
    BY <1>1, <2>1 DEF TapInv, BytesSent, Binary
  <2>3. nleft = T - L /\ ptr = S + L
    BY <1>1, <1>3, <2>1 DEF TapInv, Reader, Binary
  <2>4. transfer \in Nat /\ version \in Nat
    BY DEF TapInv, Counters
  <2>5. From(L + 1) = S + L /\ Place(L + 1) = 0
    BY <2>1, <2>2 DEF From, Place
  <2> HIDE DEF L, T, S
  <2>6. ptr \in Nat /\ L + 1 <= T
    BY <1>1, <2>1, <2>2, <2>3
  <2>7. c \in Byte /\ c.of.transfer = transfer /\ c.of.at = S + L /\ c.byte = 0
    BY <2>3, <2>4, <2>6 DEF Byte, Datum0, Read
  <2> HIDE DEF c
  <2>8. /\ sent' \in Seq(Byte) /\ Len(sent') = L + 1 /\ sent'[L + 1] = c
        /\ \A k \in 1..L : sent'[k] = sent[k]
    BY <1>1, <2>2, <2>7 DEF L
  <2>9. \A k \in 1..Len(sent') : sent'[k].of.transfer = transfer /\ sent'[k].of.at = From(k)
                                  /\ sent'[k].byte = Place(k)
    <3> SUFFICES ASSUME NEW k \in 1..(L + 1)
                 PROVE  sent'[k].of.transfer = transfer /\ sent'[k].of.at = From(k)
                        /\ sent'[k].byte = Place(k)
      BY <2>8
    <3>1. CASE k = L + 1
      BY <2>5, <2>7, <2>8, <3>1
    <3>2. CASE k \in 1..L
      BY <2>2, <2>8, <3>2
    <3> QED
      BY <2>2, <3>1, <3>2
  <2>10. Total' = T /\ Start(req') = S /\ ~FpgaWords'
    BY <1>1, <2>1 DEF Total, FpgaWords, T, S
  <2>11. \A k : From(k)' = From(k) /\ Place(k)' = Place(k)
    BY <1>1 DEF From, Place, FpgaWords
  <2>12. BytesSent'
    BY <1>1, <2>6, <2>8, <2>9, <2>10, <2>11 DEF BytesSent
  <2>13. nleft' = T - (L + 1)
    BY <1>1, <2>1, <2>2, <2>3
  <2>14. nleft' > 0 => ptr' = S + (L + 1)
    <3> HAVE nleft' > 0
    <3>1. S + L + 1 < AddrMod /\ S + L + 1 \in Nat
      BY <2>1, <2>2, <2>13, Modulus
    <3> QED
      BY <1>1, <2>1, <2>2, <2>3, <3>1, Exact
  <2>15. Reader'
    BY <1>1, <2>1, <2>2, <2>6, <2>8, <2>10, <2>13, <2>14 DEF Reader
  <2> QED
    BY <2>12, <2>15
<1> QED
  BY <1>2, <1>3

\* Which byte of a word is next, of t bytes with l sent, and where words begin.
LEMMA ByteOfWord ==
  ASSUME NEW t \in Int, NEW l \in Nat, NEW n \in Int, t % 4 = 0, n = t - l, n > 0
  PROVE  /\ 3 - ((n - 1) % 4) = l % 4 /\ l % 4 \in 0..3
         /\ n % 4 = 0 <=> l % 4 = 0
         /\ n % 4 = 0 => AlignDown(n) = n /\ AlignDown(l) = l /\ AlignDown(n - 1) = n - 4
         /\ n % 4 # 0 => AlignDown(n - 1) = AlignDown(n)
         /\ (n - 1) % 4 # 0 => AlignDown(l + 1) = AlignDown(l)
         /\ AlignDown(l) \in Nat /\ AlignDown(l) <= l
  BY DEF AlignDown, WordSize

LEMMA EarlierWord ==
  ASSUME NEW l \in Nat, l % 4 = 0, NEW k \in 1..l
  PROVE  AlignDown(k - 1) < l /\ AlignDown(k - 1) \in Nat
  BY DEF AlignDown, WordSize

LEMMA NextWord ==
  ASSUME NEW p \in Nat, p < AddrMod, AlignDown(p) + 4 < AddrMod
  PROVE  U32(p + 4) = p + 4 /\ p + 4 < AddrMod /\ AlignDown(p + 4) = AlignDown(p) + 4
<1>1. p + 4 < AddrMod /\ p + 4 \in Nat
  <2> DEFINE q == p \div 4
             m == AddrMod \div 4
  <2>1. q \in Nat /\ m \in Nat /\ AddrMod = 4 * m /\ AlignDown(p) = 4 * q /\ p <= 4 * q + 3
    BY Modulus DEF AlignDown, WordSize
  <2> HIDE DEF q, m
  <2> QED
    BY <2>1
<1>2. AlignDown(p + 4) = AlignDown(p) + 4
  BY DEF AlignDown, WordSize
<1> QED
  BY <1>1, <1>2, Exact

LEMMA FpgaByteStep ==
  ASSUME TapInv, FpgaByte
  PROVE  BytesSent' /\ Reader'
<1> DEFINE L == Len(sent)
           T == Total
           S == Start(req)
           b == 3 - ((nleft - 1) % 4)
           c == [of |-> word', byte |-> b]
<1>1. /\ status = "open" /\ handler = "fpga_words_binary" /\ nleft > 0
      /\ sent' = Append(sent, c) /\ nleft' = nleft - 1
      /\ IF b = 0 THEN word' = Word(ptr) /\ ptr' = U32(ptr + 4) ELSE word' = word /\ ptr' = ptr
      /\ UNCHANGED <<status, handler, req, transfer>>
  BY DEF FpgaByte, Looping, Emit, request, WordSize
<1>2. CASE ~Sensible(req)
  BY <1>1, <1>2 DEF BytesSent, Reader, Reading
<1>3. CASE Sensible(req)
  <2>1. /\ Reading /\ handler = Handler(req) /\ FpgaWords /\ S \in Nat /\ T \in Int
        /\ S + T <= AddrMod /\ T % 4 = 0
    BY <1>1, <1>3, ReadingIs DEF Binary, FpgaWords
  <2>2. /\ sent \in Seq(Byte) /\ L \in Nat
        /\ \A k \in 1..L : sent[k].of.transfer = transfer /\ sent[k].of.at = From(k)
                           /\ sent[k].byte = Place(k)
        /\ \A j, k \in 1..L : sent[j].of.at = sent[k].of.at => sent[j].of = sent[k].of
    BY <1>1, <2>1 DEF TapInv, BytesSent, Binary
  <2>3. /\ nleft = T - L
        /\ AlignDown(nleft) > 0 => /\ ptr \in Nat /\ ptr < AddrMod
                                   /\ AlignDown(ptr) = S + T - AlignDown(nleft)
        /\ nleft % 4 # 0 => /\ word \in Datum0 /\ word.transfer = transfer
                            /\ word.at = S + AlignDown(L)
                            /\ \A k \in 1..L : sent[k].of.at = word.at => sent[k].of = word
    BY <1>1, <1>3, <2>1 DEF TapInv, Reader, Binary
  <2>4. transfer \in Nat /\ version \in Nat
    BY DEF TapInv, Counters
  <2>5. /\ From(L + 1) = S + AlignDown(L) /\ Place(L + 1) = L % 4
        /\ \A k \in 1..L : From(k) = S + AlignDown(k - 1)
    <3>1. (L + 1) - 1 = L
      BY <2>2
    <3> QED
      BY <2>1, <3>1 DEF From, Place
  <2> HIDE DEF L, T, S
  <2>6. nleft \in Int
    BY <2>1, <2>2, <2>3
  <2>7. /\ b = L % 4 /\ L % 4 \in 0..3
        /\ nleft % 4 = 0 <=> L % 4 = 0
        /\ nleft % 4 = 0 => /\ AlignDown(nleft) = nleft /\ AlignDown(L) = L
                            /\ AlignDown(nleft - 1) = nleft - 4
        /\ nleft % 4 # 0 => AlignDown(nleft - 1) = AlignDown(nleft)
        /\ (nleft - 1) % 4 # 0 => AlignDown(L + 1) = AlignDown(L)
        /\ AlignDown(L) \in Nat /\ AlignDown(L) <= L
    BY <1>1, <2>1, <2>2, <2>3, <2>6, ByteOfWord
  <2> HIDE DEF b
  \* The word the byte is of.
  <2>8. /\ word' \in Datum0 /\ word'.transfer = transfer /\ word'.at = S + AlignDown(L)
        /\ \A k \in 1..L : sent[k].of.at = word'.at => sent[k].of = word'
    <3>1. CASE b = 0
      <4>1. nleft % 4 = 0 /\ AlignDown(nleft) = nleft /\ AlignDown(L) = L /\ L % 4 = 0
        BY <2>7, <3>1
      <4>2. word' = Word(ptr) /\ ptr \in Nat /\ AlignDown(ptr) = S + T - nleft
        BY <1>1, <2>3, <3>1, <4>1
      <4>3. AlignDown(ptr) = S + L
        BY <2>1, <2>2, <2>3, <4>2
      <4>4. word' = [transfer |-> transfer, at |-> S + L, version |-> version]
        BY <4>2, <4>3 DEF Word, Read
      <4>5. \A k \in 1..L : sent[k].of.at # S + L
        <5> SUFFICES ASSUME NEW k \in 1..L PROVE sent[k].of.at # S + L
          OBVIOUS
        <5>1. AlignDown(k - 1) < L /\ AlignDown(k - 1) \in Nat
          BY <2>2, <4>1, EarlierWord
        <5>2. sent[k].of.at = S + AlignDown(k - 1)
          BY <2>2, <2>5
        <5>3. S + AlignDown(k - 1) # S + L
          BY <2>1, <2>2, <5>1
        <5> QED
          BY <5>2, <5>3
      <4> QED
        BY <2>1, <2>2, <2>4, <4>1, <4>4, <4>5 DEF Datum0
    <3>2. CASE b # 0
      <4>1. nleft % 4 # 0 /\ word' = word
        BY <1>1, <2>7, <3>2
      <4> QED
        BY <2>3, <4>1
    <3> QED
      BY <3>1, <3>2
  <2>9. c \in Byte /\ c.of = word' /\ c.byte = L % 4
    BY <2>7, <2>8 DEF Byte
  <2> HIDE DEF c
  <2>10. /\ sent' \in Seq(Byte) /\ Len(sent') = L + 1 /\ sent'[L + 1] = c
         /\ \A k \in 1..L : sent'[k] = sent[k]
    BY <1>1, <2>2, <2>9 DEF L
  <2>11. \A k \in 1..Len(sent') :
           /\ sent'[k].of.transfer = transfer /\ sent'[k].of.at = From(k) /\ sent'[k].byte = Place(k)
           /\ sent'[k].of.at = word'.at => sent'[k].of = word'
    <3> SUFFICES ASSUME NEW k \in 1..(L + 1)
                 PROVE  /\ sent'[k].of.transfer = transfer /\ sent'[k].of.at = From(k)
                        /\ sent'[k].byte = Place(k)
                        /\ sent'[k].of.at = word'.at => sent'[k].of = word'
      BY <2>10
    <3>1. CASE k = L + 1
      BY <2>5, <2>8, <2>9, <2>10, <3>1
    <3>2. CASE k \in 1..L
      BY <2>2, <2>8, <2>10, <3>2
    <3> QED
      BY <2>2, <3>1, <3>2
  <2>12. \A j, k \in 1..Len(sent') : sent'[j].of.at = sent'[k].of.at => sent'[j].of = sent'[k].of
    <3> SUFFICES ASSUME NEW j \in 1..(L + 1), NEW k \in 1..(L + 1), sent'[j].of.at = sent'[k].of.at
                 PROVE  sent'[j].of = sent'[k].of
      BY <2>10
    <3>1. CASE j \in 1..L /\ k \in 1..L
      BY <2>2, <2>10, <3>1
    <3>2. CASE j = L + 1
      <4>1. sent'[j].of = word'
        BY <2>9, <2>10, <3>2
      <4> QED
        BY <2>10, <2>11, <4>1
    <3>3. CASE k = L + 1
      <4>1. sent'[k].of = word'
        BY <2>9, <2>10, <3>3
      <4> QED
        BY <2>10, <2>11, <4>1
    <3> QED
      BY <2>2, <3>1, <3>2, <3>3
  <2>13. Total' = T /\ Start(req') = S /\ FpgaWords'
    BY <1>1, <2>1 DEF Total, FpgaWords, T, S
  <2>14. \A k : From(k)' = From(k) /\ Place(k)' = Place(k)
    BY <1>1 DEF From, Place, FpgaWords
  <2>15. L + 1 <= T
    BY <1>1, <2>1, <2>2, <2>3
  <2>16. BytesSent'
    BY <1>1, <2>10, <2>11, <2>12, <2>13, <2>14, <2>15 DEF BytesSent
  <2>17. nleft' = T - (L + 1) /\ nleft' >= 0
    BY <1>1, <2>1, <2>2, <2>3
  <2>18. AlignDown(nleft') > 0 => /\ ptr' \in Nat /\ ptr' < AddrMod
                                  /\ AlignDown(ptr') = S + T - AlignDown(nleft')
    <3> HAVE AlignDown(nleft') > 0
    <3>1. CASE b = 0
      <4>1. nleft % 4 = 0 /\ AlignDown(nleft) = nleft /\ AlignDown(nleft') = nleft - 4
        BY <1>1, <2>7, <3>1
      <4>2. ptr \in Nat /\ ptr < AddrMod /\ AlignDown(ptr) = S + T - nleft /\ ptr' = U32(ptr + 4)
        BY <1>1, <2>3, <3>1, <4>1
      <4>3. AlignDown(ptr) + 4 < AddrMod
        BY <2>1, <2>6, <4>1, <4>2, Modulus
      <4>4. U32(ptr + 4) = ptr + 4 /\ ptr + 4 < AddrMod /\ AlignDown(ptr + 4) = AlignDown(ptr) + 4
        BY <4>2, <4>3, NextWord
      <4> QED
        BY <2>1, <2>6, <4>1, <4>2, <4>4
    <3>2. CASE b # 0
      <4>1. nleft % 4 # 0 /\ AlignDown(nleft') = AlignDown(nleft) /\ ptr' = ptr
        BY <1>1, <2>7, <3>2
      <4> QED
        BY <2>3, <4>1
    <3> QED
      BY <3>1, <3>2
  <2>19. nleft' % 4 # 0 => word'.at = S + AlignDown(L + 1)
    BY <1>1, <2>7, <2>8
  <2>20. Reader'
    BY <1>1, <2>8, <2>10, <2>11, <2>13, <2>17, <2>18, <2>19 DEF Reader
  <2> QED
    BY <2>16, <2>20
<1> QED
  BY <1>2, <1>3

LEMMA ReadStepKeeps ==
  ASSUME TapInv, status = "open", handler \in Binary \cup Ascii, GoesOn
  PROVE  Writer' /\ WordsStored'
<1>1. ~req.write /\ handler # "write_binary"
  BY SessionIs DEF TapInv, Binary, Ascii
<1> QED
  BY <1>1 DEF Writer, WordsStored, Uploading, GoesOn

LEMMA WriteStepKeeps ==
  ASSUME TapInv, status = "open", handler \in {"write_binary", "write_ascii"}, GoesOn
  PROVE  BytesSent' /\ Reader'
<1>1. req.write /\ handler \notin Binary
  BY SessionIs DEF TapInv, Binary, Ascii
<1> QED
  BY <1>1 DEF BytesSent, Reader, Reading, GoesOn, Binary

\* A block is full, or the transfer has come to its end.
LEMMA ReturnStep ==
  ASSUME TapInv, Return, UNCHANGED wvars
  PROVE  TapInv'
<1>1. /\ status = "open" /\ handler \in Binary \cup Ascii /\ pc = "loop" /\ ~Looping /\ len' = 0
      /\ UNCHANGED <<transfer, req, word, version, pc, sent, wword, got, stored>>
      /\ IF len = BlockSize THEN UNCHANGED <<status, handler, ptr, nleft>>
                            ELSE status' = "done" /\ handler' = "none"
  BY DEF Return, statics, Close, wvars
<1>2. GoesOn
  BY <1>1 DEF GoesOn
<1>3. Counters'
  BY <1>1, ReadAssumption DEF TapInv, Counters, ReadAssumption
<1>4. Granted' /\ Writer' /\ WordsStored'
  BY <1>1, <1>2, GrantedStays, ReadStepKeeps DEF TapInv
<1>5. CASE handler \in Ascii
  BY <1>1, <1>2, <1>3, <1>4, <1>5, AsciiStep DEF TapInv
<1>6. CASE handler \in Binary /\ len = BlockSize
  <2>1. BytesSent' /\ Reader'
    BY <1>1, <1>6 DEF TapInv, BytesSent, Reader, Reading, Total, FpgaWords, From, Place
  <2> QED
    BY <1>3, <1>4, <2>1 DEF TapInv
<1>7. CASE handler \in Binary /\ len # BlockSize
  <2>1. Reader'
    BY <1>1, <1>7 DEF Reader
  <2>2. CASE ~Sensible(req)
    BY <1>1, <1>3, <1>4, <2>1, <2>2 DEF TapInv, BytesSent, Reading
  <2>3. CASE Sensible(req)
    <3>1. Reading /\ handler = Handler(req) /\ Total \in Int
      BY <1>1, <1>7, <2>3, ReadingIs
    <3>2. nleft = Total - Len(sent) /\ (nleft >= 0 \/ sent = <<>>)
      BY <1>1, <1>7, <2>3 DEF TapInv, Reader
    <3>3. sent \in Seq(Byte) /\ Len(sent) \in Nat
      BY <1>7, <3>1 DEF TapInv, BytesSent
    <3>4. len < BlockSize
      BY <1>7, ReadAssumption DEF TapInv, Counters, ReadAssumption
    <3>5. ~(nleft > 0)
      BY <1>1, <3>4 DEF Looping
    <3>6. Len(sent) = Total \/ Total < 0
      BY <3>1, <3>2, <3>3, <3>5
    <3>7. BytesSent'
      BY <1>1, <1>7, <3>1, <3>6 DEF TapInv, BytesSent, Reading, Total, FpgaWords, From, Place
    <3> QED
      BY <1>3, <1>4, <2>1, <3>7 DEF TapInv
  <2> QED
    BY <2>2, <2>3
<1> QED
  BY <1>1, <1>5, <1>6, <1>7

LEMMA ReadStepStep ==
  ASSUME TapInv, ReadStep, UNCHANGED wvars
  PROVE  TapInv'
<1>0. UNCHANGED <<wword, plb, got, line, expect, stored>> /\ BlockSize \in Nat
  BY ReadAssumption DEF wvars, ReadAssumption
<1>1. CASE MemByte \/ FpgaByte
  <2>1. /\ status = "open" /\ handler \in Binary /\ pc = "loop" /\ len < BlockSize /\ len' = len + 1
        /\ UNCHANGED <<status, handler, req, transfer, version, pc>>
    BY <1>1 DEF MemByte, FpgaByte, Looping, Emit, request, Binary
  <2>2. GoesOn
    BY <2>1 DEF GoesOn
  <2>3. Counters'
    BY <1>0, <2>1 DEF TapInv, Counters
  <2>4. Granted' /\ Writer' /\ WordsStored'
    BY <2>1, <2>2, GrantedStays, ReadStepKeeps DEF TapInv
  <2> QED
    BY <1>1, <2>3, <2>4, MemByteStep, FpgaByteStep DEF TapInv
<1>2. CASE NewLine \/ SameLine
  <2>1. /\ status = "open" /\ handler \in Ascii /\ len < BlockSize
        /\ UNCHANGED <<status, handler, req, transfer, version, len>> /\ pc' = "copy"
    BY <1>2 DEF NewLine, SameLine, Looping, request
  <2>2. GoesOn
    BY <2>1 DEF GoesOn
  <2>3. Counters'
    BY <1>0, <2>1 DEF TapInv, Counters
  <2> QED
    BY <2>1, <2>2, <2>3, GrantedStays, AsciiStep DEF TapInv
<1>3. CASE Copy
  <2>1. handler \in Ascii /\ status = "open" /\ len < BlockSize
    BY <1>3 DEF Copy, TapInv, Counters, Granted, Ascii
  <2>2. /\ len' = len + 1 /\ UNCHANGED <<status, handler, req, transfer, version>>
        /\ pc' \in {"loop", "copy"} /\ (pc' = "copy" => len' < BlockSize)
    BY <1>3 DEF Copy, Emit, request
  <2>3. GoesOn
    BY <2>2 DEF GoesOn
  <2>4. Counters'
    BY <1>0, <2>1, <2>2 DEF TapInv, Counters
  <2> QED
    BY <2>1, <2>3, <2>4, GrantedStays, AsciiStep DEF TapInv
<1>4. CASE Return
  BY <1>4, ReturnStep
<1>5. CASE MemoryChanges
  <2>1. /\ version' = version + 1
        /\ UNCHANGED <<status, handler, req, transfer, ptr, nleft, u32, word, pc, len, sent>>
    BY <1>5 DEF MemoryChanges, request, tapcp_state, statics
  <2>2. Counters' /\ Granted'
    BY <1>0, <2>1 DEF TapInv, Counters, Granted
  <2>3. BytesSent' /\ Reader'
    BY <2>1 DEF TapInv, BytesSent, Reader, Reading, Total, FpgaWords, From, Place
  <2>4. Writer' /\ WordsStored'
    BY <1>0, <2>1 DEF TapInv, Writer, WordsStored, Uploading, Total, Stored
  <2> QED
    BY <2>2, <2>3, <2>4 DEF TapInv
<1> QED
  BY <1>1, <1>2, <1>3, <1>4, <1>5 DEF ReadStep

(***************************************************************************)
(* A request, and the end of one.                                          *)
(***************************************************************************)
LEMMA NoneTaken ==
  /\ Len(<<>>) = 0 /\ AlignDown(0) = 0 /\ 0 \div 4 = 0 /\ 0 % 4 = 0 /\ 1..0 = {}
  BY DEF AlignDown, WordSize

LEMMA AlignedIs ==
  ASSUME NEW n \in Int, n % 4 = 0
  PROVE  AlignDown(n) = n
  BY DEF AlignDown, WordSize

LEMMA OpenStep ==
  ASSUME TapInv, OpenAny
  PROVE  TapInv'
<1>0. BlockSize \in Nat
  BY ReadAssumption DEF ReadAssumption
<1>1. PICK r \in Requests : Open(r) /\ UNCHANGED <<wword, got, stored>>
  BY DEF OpenAny
<1> DEFINE o == OpenRequest(r)
<1>2. /\ status = "idle" /\ transfer' = transfer + 1 /\ req' = r /\ len' = 0 /\ sent' = <<>>
      /\ version' = version /\ pc' = pc
  BY <1>1 DEF Open
<1>3. got' = 0 /\ stored' = <<>> /\ handler = "none" /\ pc # "copy"
  <2>1. handler = "none"
    BY <1>2 DEF TapInv, Granted
  <2> QED
    BY <1>1, <1>2, <2>1 DEF TapInv, Granted, Counters, Ascii
<1>4. Counters'
  BY <1>0, <1>1, <1>2, <1>3 DEF TapInv, Counters
<1>5. CASE ~o.ok
  <2>1. status' = "refused" /\ handler' = "none"
    BY <1>1, <1>5 DEF Open
  <2> QED
    BY <1>4, <2>1 DEF TapInv, Granted, BytesSent, Reader, Writer, WordsStored, Reading, Uploading
<1>6. CASE o.ok
  <2>1. /\ status' = "open" /\ handler' = Handler(r) /\ ptr' = o.ptr /\ nleft' = o.nleft
        /\ Handler(r) \notin Binary => u32' = 0
    BY <1>1, <1>6 DEF Open
  <2>2. Granted'
    BY <1>2, <1>6, <2>1 DEF Granted
  <2>3. /\ Handler(r) \in Binary => ~r.write
        /\ Handler(r) = "write_binary" => r.write
    BY <1>6, HandlerIs DEF Binary, Ascii
  <2>4. Total' = o.nleft
    BY <1>2 DEF Total
  <2>5. BytesSent'
    <3>1. <<>> \in Seq(Byte)
      OBVIOUS
    <3> QED
      BY <1>2, <2>1, <3>1, NoneTaken DEF BytesSent
  <2>6. Reader'
    <3> SUFFICES ASSUME Handler(r) \in Binary, Sensible(r) PROVE Reader'
      BY <1>2, <2>1 DEF Reader
    <3>1. OpensRead(r)
      BY <1>6, <2>3, OpensToRead
    <3>2. /\ Start(r) \in Nat /\ o.nleft \in Int
          /\ Handler(r) # "fpga_words_binary" => o.ptr = Start(r)
          /\ Handler(r) = "fpga_words_binary" =>
               /\ o.ptr \in Nat /\ o.ptr < AddrMod /\ AlignDown(o.ptr) = Start(r)
               /\ o.nleft % 4 = 0
      BY <3>1 DEF OpensRead, Binary
    <3> HIDE DEF o
    <3>3. o.nleft = o.nleft - 0 /\ Start(r) = Start(r) + 0
          /\ Start(r) = Start(r) + o.nleft - o.nleft
      BY <3>2
    <3>4. Handler(r) = "fpga_words_binary" => AlignDown(o.nleft) = o.nleft
      BY <3>2, AlignedIs
    <3> QED
      BY <1>2, <2>1, <2>4, <3>2, <3>3, <3>4, NoneTaken DEF Reader, FpgaWords
  <2>7. Handler(r) = "write_binary" /\ Sensible(r) =>
          /\ Start(r) \in Nat /\ o.nleft \in Nat /\ o.ptr = Start(r)
    BY <1>6, <2>3, OpensToWrite DEF OpensWrite
  <2>8. Writer'
    <3> SUFFICES ASSUME Handler(r) = "write_binary", Sensible(r) PROVE Writer'
      BY <1>2, <2>1 DEF Writer
    <3> HIDE DEF o
    <3>1. o.nleft = o.nleft - 0 /\ Start(r) = Start(r) + 0 /\ o.nleft >= 0
      BY <2>7
    <3>2. u32' = 0 /\ 0 < AddrMod
      BY <2>1, Modulus DEF Binary
    <3> QED
      BY <1>2, <1>3, <2>1, <2>4, <2>7, <3>1, <3>2, NoneTaken DEF Writer
  <2>9. WordsStored'
    <3> SUFFICES ASSUME r.write, r.binary, Sensible(r) PROVE WordsStored'
      BY <1>2 DEF WordsStored, Uploading
    <3>1. Handler(r) = "write_binary"
      BY <1>6, HandlerIs
    <3>2. o.nleft \in Nat
      BY <2>7, <3>1
    <3>3. <<>> \in Seq([at : Nat, word : Seq(Nat)])
      OBVIOUS
    <3> HIDE DEF o
    <3> QED
      BY <1>2, <1>3, <2>1, <2>4, <3>2, <3>3, NoneTaken DEF WordsStored
  <2> QED
    BY <1>4, <2>2, <2>5, <2>6, <2>8, <2>9 DEF TapInv
<1> QED
  BY <1>5, <1>6

LEMMA ForgetStep ==
  ASSUME TapInv, Forget
  PROVE  TapInv'
<1>1. /\ status \notin {"open", "idle"} /\ status' = "idle" /\ got' = 0 /\ stored' = <<>>
      /\ wword' = <<0, 0, 0, 0>> /\ UNCHANGED <<handler, transfer, version, pc, len>>
  BY DEF Forget
<1>2. handler = "none"
  BY <1>1 DEF TapInv, Granted
<1>3. <<0, 0, 0, 0>> \in Seq(Nat) /\ Len(<<0, 0, 0, 0>>) = 4
  OBVIOUS
<1>4. Counters' /\ Granted'
  BY <1>1, <1>2, <1>3 DEF TapInv, Counters, Granted
<1> QED
  BY <1>1, <1>4 DEF TapInv, BytesSent, Reader, Writer, WordsStored, Reading, Uploading

(***************************************************************************)
(* The writers.                                                            *)
(***************************************************************************)
LEMMA CountWraps ==
  ASSUME NEW u \in Nat, u < AddrMod, NEW g \in Nat, u % 4 = g % 4
  PROVE  U32(u + 1) \in Nat /\ U32(u + 1) < AddrMod /\ U32(u + 1) % 4 = (g + 1) % 4
<1>1. CASE u + 1 < AddrMod
  <2>1. U32(u + 1) = u + 1
    BY <1>1, Exact
  <2> QED
    BY <1>1, <2>1
<1>2. CASE u + 1 = AddrMod
  <2>1. U32(u + 1) = 0
    BY <1>2, Modulus DEF U32
  <2>2. (g + 1) % 4 = 0
    BY <1>2, Modulus
  <2> QED
    BY <2>1, <2>2, Modulus
<1> QED
  BY <1>1, <1>2, Modulus

LEMMA FourthByte ==
  ASSUME NEW g \in Nat
  PROVE  /\ g % 4 \in 0..3 /\ AlignDown(g) \in Nat /\ g = AlignDown(g) + (g % 4) /\ g \div 4 \in Nat
         /\ AlignDown(g) = 4 * (g \div 4) /\ AlignDown(g) % 4 = 0 /\ AlignDown(g) <= g
         /\ (g + 1) % 4 = 0 => /\ g % 4 = 3 /\ (g + 1) \div 4 = (g \div 4) + 1
                               /\ AlignDown(g + 1) = AlignDown(g) + 4
         /\ (g + 1) % 4 # 0 => /\ (g + 1) % 4 = (g % 4) + 1 /\ (g + 1) \div 4 = g \div 4
                               /\ AlignDown(g + 1) = AlignDown(g)
  BY DEF AlignDown, WordSize

LEMMA Appended ==
  ASSUME NEW S, NEW q \in Seq(S), NEW e \in S, NEW w, w = Append(q, e), NEW n, n = Len(q)
  PROVE  /\ w \in Seq(S) /\ Len(w) = n + 1 /\ w[n + 1] = e
         /\ \A i \in 1..n : w[i] = q[i]
  OBVIOUS

LEMMA ShiftIn ==
  ASSUME NEW w \in Seq(Nat), Len(w) = 4, NEW x \in Nat
  PROVE  /\ Append(Tail(w), x) \in Seq(Nat) /\ Len(Append(Tail(w), x)) = 4
         /\ Append(Tail(w), x)[4] = x
         /\ \A i \in 1..3 : Append(Tail(w), x)[i] = w[i + 1]
<1>1. ASSUME NEW v \in Seq(Nat), v # <<>>
      PROVE  /\ Append(Tail(v), x) \in Seq(Nat) /\ Len(Append(Tail(v), x)) = Len(v)
             /\ Append(Tail(v), x)[Len(v)] = x
             /\ \A i \in 1..(Len(v) - 1) : Append(Tail(v), x)[i] = v[i + 1]
  <2> DEFINE t == Tail(v)
             u == Append(t, x)
             n == Len(t)
  <2>1. t \in Seq(Nat) /\ Len(t) = Len(v) - 1 /\ \A i \in 1..Len(t) : t[i] = v[i + 1]
    BY <1>1, HeadTailProperties
  <2>2. u = Append(t, x) /\ n = Len(t)
    OBVIOUS
  <2> HIDE DEF t, u, n
  <2>3. /\ u \in Seq(Nat) /\ Len(u) = n + 1 /\ u[n + 1] = x
        /\ \A i \in 1..n : u[i] = t[i]
    BY <2>1, <2>2, Appended
  <2>4. n + 1 = Len(v) /\ n = Len(v) - 1 /\ \A i \in 1..n : t[i] = v[i + 1]
    BY <2>1, <2>2
  <2>5. /\ u \in Seq(Nat) /\ Len(u) = Len(v) /\ u[Len(v)] = x
        /\ \A i \in 1..(Len(v) - 1) : u[i] = v[i + 1]
    BY <2>3, <2>4, Zenon
  <2> QED
    BY <2>5, Zenon DEF t, u
<1>2. w # <<>> /\ Len(w) - 1 = 3
  OBVIOUS
<1>3. /\ Append(Tail(w), x) \in Seq(Nat) /\ Len(Append(Tail(w), x)) = Len(w)
      /\ Append(Tail(w), x)[Len(w)] = x
      /\ \A i \in 1..(Len(w) - 1) : Append(Tail(w), x)[i] = w[i + 1]
  BY <1>1, <1>2, Zenon
<1> QED
  BY <1>2, <1>3, Zenon

LEMMA WriteByteStep ==
  ASSUME TapInv, WriteByte
  PROVE  Writer' /\ WordsStored' /\ wword' \in Seq(Nat) /\ Len(wword') = 4
<1> DEFINE T == Total
           S == Start(req)
           g == got
           A == AlignDown(got)
           x == got \div 4
           c == [at |-> AlignDown(ptr), word |-> wword']
<1>1. /\ status = "open" /\ handler = "write_binary" /\ nleft # 0 /\ got' = g + 1
      /\ wword' = Append(Tail(wword), g + 1) /\ u32' = U32(u32 + 1)
      /\ IF u32' % 4 = 0 THEN stored' = Append(stored, c) /\ ptr' = U32(ptr + 4)
                         ELSE stored' = stored /\ ptr' = ptr
      /\ nleft' = (IF nleft > 0 THEN nleft - 1 ELSE nleft)
      /\ UNCHANGED <<status, handler, req>>
  BY DEF WriteByte, Writing, request, WordSize
<1>2. g \in Nat /\ wword \in Seq(Nat) /\ Len(wword) = 4
  BY DEF TapInv, Counters
<1>3. /\ wword' \in Seq(Nat) /\ Len(wword') = 4 /\ wword'[4] = g + 1
      /\ \A i \in 1..3 : wword'[i] = wword[i + 1]
  BY <1>1, <1>2, ShiftIn
<1>4. CASE ~Sensible(req)
  BY <1>1, <1>3, <1>4 DEF Writer, WordsStored, Uploading
<1>5. CASE Sensible(req)
  <2>1. /\ req \in Requests /\ OpenRequest(req).ok /\ req.write /\ req.binary
    BY <1>1, SessionIs DEF TapInv
  <2>2. S \in Nat /\ T \in Nat /\ S + T <= AddrMod /\ S % 4 = 0
    BY <1>5, <2>1, OpensToWrite DEF OpensWrite, Total
  <2>3. /\ nleft = T - g /\ nleft >= 0 /\ u32 \in Nat /\ u32 < AddrMod /\ u32 % 4 = g % 4
        /\ nleft > 0 => ptr = S + A
        /\ \A j \in 1..(g % 4) : wword[4 - (g % 4) + j] = A + j
    BY <1>1, <1>5 DEF TapInv, Writer
  <2>4. Uploading
    BY <1>1, <1>5, <2>1 DEF Uploading
  <2>5. /\ stored \in Seq([at : Nat, word : Seq(Nat)]) /\ Len(stored) = x /\ g <= T
        /\ \A k \in 1..Len(stored) : stored[k] = Stored(k)
    BY <1>1, <2>1, <2>4 DEF TapInv, WordsStored
  <2>6. /\ g % 4 \in 0..3 /\ A \in Nat /\ g = A + (g % 4) /\ x \in Nat
        /\ A = 4 * x /\ A % 4 = 0 /\ A <= g
        /\ (g + 1) % 4 = 0 => /\ g % 4 = 3 /\ (g + 1) \div 4 = x + 1
                              /\ AlignDown(g + 1) = A + 4
        /\ (g + 1) % 4 # 0 => /\ (g + 1) % 4 = (g % 4) + 1 /\ (g + 1) \div 4 = x
                              /\ AlignDown(g + 1) = A
    BY <1>2, FourthByte
  <2>7. Stored(x + 1) = [at |-> S + 4 * x, word |-> [j \in 1..4 |-> 4 * x + j]]
    <3>1. (x + 1) - 1 = x
      BY <2>6
    <3> QED
      BY <3>1 DEF Stored
  <2>8. Total' = T /\ Start(req') = S /\ \A k : Stored(k)' = Stored(k)
    BY <1>1 DEF Total, Stored
  <2> HIDE DEF T, S, A, x, g, c
  <2>9. /\ u32' \in Nat /\ u32' < AddrMod /\ u32' % 4 = (g + 1) % 4
    BY <1>1, <1>2, <2>3, CountWraps
  <2>10. nleft > 0 /\ nleft' = T - (g + 1) /\ nleft' >= 0 /\ g + 1 <= T /\ ptr = S + A
    BY <1>1, <1>2, <2>2, <2>3
  <2>11. CASE (g + 1) % 4 = 0
    <3>1. g % 4 = 3 /\ (g + 1) \div 4 = x + 1 /\ AlignDown(g + 1) = A + 4 /\ g + 1 = A + 4
      BY <1>2, <2>6, <2>11
    <3>2. stored' = Append(stored, c) /\ ptr' = U32(ptr + 4)
      BY <1>1, <2>9, <2>11
    <3>3. \A j \in 1..3 : wword'[j] = A + j
      <4> SUFFICES ASSUME NEW j \in 1..3 PROVE wword'[j] = A + j
        OBVIOUS
      <4>1. wword'[j] = wword[j + 1]
        BY <1>3
      <4>2. j \in 1..(g % 4) /\ 4 - (g % 4) + j = j + 1
        BY <3>1
      <4>3. wword[4 - (g % 4) + j] = A + j
        BY <2>3, <4>2
      <4> QED
        BY <4>1, <4>2, <4>3
    <3>4. wword' = [j \in 1..4 |-> 4 * x + j]
      <4>1. wword' = [j \in 1..4 |-> wword'[j]]
        BY <1>3
      <4>2. \A j \in 1..4 : wword'[j] = 4 * x + j
        <5> SUFFICES ASSUME NEW j \in 1..4 PROVE wword'[j] = 4 * x + j
          OBVIOUS
        <5>1. CASE j = 4
          BY <1>3, <2>6, <3>1, <5>1
        <5>2. CASE j \in 1..3
          BY <2>6, <3>3, <5>2
        <5> QED
          BY <5>1, <5>2
      <4> QED
        BY <4>1, <4>2
    <3>5. AlignDown(ptr) = S + 4 * x /\ ptr \in Nat
      <4>1. ptr % 4 = 0 /\ ptr \in Int /\ ptr \in Nat
        BY <2>2, <2>6, <2>10, FourMore
      <4> QED
        BY <2>6, <2>10, <4>1, AlignedIs
    <3>6. c = Stored(x + 1)
      BY <2>7, <3>4, <3>5 DEF c
    <3>7. c \in [at : Nat, word : Seq(Nat)]
      <4>1. AlignDown(ptr) \in Nat
        BY <2>2, <2>6, <3>5
      <4> QED
        BY <1>3, <4>1 DEF c
    <3>8. /\ stored' \in Seq([at : Nat, word : Seq(Nat)]) /\ Len(stored') = x + 1
          /\ stored'[x + 1] = c /\ \A k \in 1..x : stored'[k] = stored[k]
      BY <2>5, <3>2, <3>7, AppendProperties
    <3>9. \A k \in 1..Len(stored') : stored'[k] = Stored(k)
      <4> SUFFICES ASSUME NEW k \in 1..(x + 1) PROVE stored'[k] = Stored(k)
        BY <3>8
      <4>1. CASE k = x + 1
        BY <3>6, <3>8, <4>1
      <4>2. CASE k \in 1..x
        BY <2>5, <3>8, <4>2
      <4> QED
        BY <2>6, <4>1, <4>2
    <3>10. WordsStored'
      BY <1>1, <2>8, <2>10, <3>1, <3>8, <3>9 DEF WordsStored, g
    <3>11. nleft' > 0 => ptr' = S + AlignDown(g + 1)
      <4> HAVE nleft' > 0
      <4>1. ptr + 4 = S + (g + 1) /\ ptr + 4 < AddrMod /\ ptr + 4 \in Nat
        BY <1>2, <2>2, <2>6, <2>10, <3>1, Modulus
      <4>2. ptr' = ptr + 4
        BY <3>2, <4>1, Exact
      <4> QED
        BY <3>1, <4>1, <4>2
    <3>12. 1..((g + 1) % 4) = {}
      BY <2>11
    <3>13. Writer'
      BY <1>1, <2>8, <2>9, <2>10, <3>11, <3>12 DEF Writer, g
    <3> QED
      BY <1>3, <3>10, <3>13
  <2>12. CASE (g + 1) % 4 # 0
    <3>1. (g + 1) % 4 = (g % 4) + 1 /\ (g + 1) \div 4 = x /\ AlignDown(g + 1) = A
      BY <2>6, <2>12
    <3>2. stored' = stored /\ ptr' = ptr
      BY <1>1, <2>9, <2>12
    <3>3. WordsStored'
      BY <1>1, <2>5, <2>8, <2>10, <3>1, <3>2 DEF WordsStored, g
    <3>4. \A j \in 1..((g + 1) % 4) : wword'[4 - ((g + 1) % 4) + j] = A + j
      <4> DEFINE m == g % 4
      <4>1. m \in 0..3 /\ g = A + m /\ (g + 1) % 4 = m + 1 /\ m + 1 <= 3
        <5>1. (g + 1) % 4 \in 0..3
          BY <1>2
        <5> QED
          BY <2>6, <3>1, <5>1
      <4>2. \A j \in 1..m : wword[4 - m + j] = A + j
        BY <2>3
      <4> HIDE DEF m
      <4> SUFFICES ASSUME NEW j \in 1..(m + 1) PROVE wword'[4 - (m + 1) + j] = A + j
        BY <4>1
      <4>3. CASE j = m + 1
        <5>1. 4 - (m + 1) + j = 4 /\ A + j = g + 1
          BY <2>6, <4>1, <4>3
        <5> QED
          BY <1>3, <5>1
      <4>4. CASE j \in 1..m
        <5>1. 4 - (m + 1) + j \in 1..3 /\ (4 - (m + 1) + j) + 1 = 4 - m + j
          BY <4>1, <4>4
        <5>2. wword'[4 - (m + 1) + j] = wword[4 - m + j]
          BY <1>3, <5>1
        <5> QED
          BY <4>2, <4>4, <5>2
      <4> QED
        BY <4>1, <4>3, <4>4
    <3>5. Writer'
      BY <1>1, <2>8, <2>9, <2>10, <3>1, <3>2, <3>4 DEF Writer, g
    <3> QED
      BY <1>3, <3>3, <3>5
  <2> QED
    BY <2>11, <2>12
<1> QED
  BY <1>4, <1>5

\* A session that writes ends.
LEMMA UploadEnds ==
  ASSUME TapInv, status = "open", handler' = "none", UNCHANGED <<req, got, stored>>,
         status' \in {"done", "lost", "failed"}, status' = "failed" => got = Total
  PROVE  Granted' /\ Writer' /\ WordsStored'
<1>1. GoesOn
  BY DEF GoesOn
<1>2. Granted' /\ Writer'
  BY <1>1, GrantedStays DEF TapInv, Writer
<1>3. Uploading' => Uploading
  BY DEF Uploading
<1>4. Total' = Total /\ \A k : Stored(k)' = Stored(k)
  BY DEF Total, Stored
<1> QED
  BY <1>2, <1>3, <1>4 DEF TapInv, WordsStored

LEMMA WriterSteps ==
  ASSUME TapInv, WriteByte \/ WriteByteFull \/ WriteChar \/ NextBlock \/ EndUpload \/ GoneAway
  PROVE  TapInv'
<1>0. BlockSize \in Nat /\ WordSize = 4
  BY ReadAssumption DEF ReadAssumption, WordSize
<1>1. CASE WriteByte
  <2>1. /\ status = "open" /\ handler = "write_binary" /\ len < BlockSize
        /\ len' = len + 1 /\ got' = got + 1
        /\ UNCHANGED <<status, handler, req, transfer, version, pc>>
    BY <1>1 DEF WriteByte, Writing, request
  <2>2. GoesOn
    BY <2>1 DEF GoesOn
  <2>3. Writer' /\ WordsStored' /\ wword' \in Seq(Nat) /\ Len(wword') = 4
    BY <1>1, WriteByteStep
  <2>4. Counters'
    BY <1>0, <2>1, <2>3 DEF TapInv, Counters, Ascii
  <2> QED
    BY <2>1, <2>2, <2>3, <2>4, GrantedStays, WriteStepKeeps DEF TapInv
<1>2. CASE WriteByteFull
  <2>1. /\ status = "open" /\ handler = "write_binary" /\ nleft = 0
        /\ status' = "failed" /\ handler' = "none"
        /\ UNCHANGED <<req, transfer, version, pc, len, wword, got, stored>>
    BY <1>2 DEF WriteByteFull, Writing, Fail, Close, wvars
  <2>2. GoesOn
    BY <2>1 DEF GoesOn
  <2>3. Counters'
    BY <2>1 DEF TapInv, Counters, Ascii
  <2>4. CASE ~Sensible(req)
    <3>1. Granted' /\ Writer' /\ WordsStored'
      BY <2>1, <2>2, <2>4, GrantedStays DEF TapInv, Writer, WordsStored, Uploading
    <3> QED
      BY <2>1, <2>2, <2>3, <3>1, WriteStepKeeps DEF TapInv
  <2>5. CASE Sensible(req)
    <3>1. req \in Requests /\ OpenRequest(req).ok /\ req.write
      BY <2>1, SessionIs DEF TapInv
    <3>2. Total \in Nat /\ got \in Nat
      BY <2>5, <3>1, OpensToWrite DEF OpensWrite, Total, TapInv, Counters
    <3>3. nleft = Total - got
      BY <2>1, <2>5 DEF TapInv, Writer
    <3>4. got = Total
      BY <2>1, <3>2, <3>3
    <3>5. Granted' /\ Writer' /\ WordsStored'
      BY <2>1, <3>4, UploadEnds
    <3> QED
      BY <2>1, <2>2, <2>3, <3>5, WriteStepKeeps DEF TapInv
  <2> QED
    BY <2>4, <2>5
<1>3. CASE WriteChar
  <2>1. PICK c : SkipChar(c) \/ StoreChar(c) \/ LineTooLong(c)
    BY <1>3 DEF WriteChar
  <2>2. /\ status = "open" /\ handler = "write_ascii" /\ len < BlockSize
        /\ UNCHANGED <<req, transfer, version, pc, wword>>
        /\ \/ UNCHANGED <<status, handler>>
           \/ status' = "failed" /\ handler' = "none"
        /\ \/ len' = len + 1 /\ got' = got + 1
           \/ len' = len /\ got' = got
    <3>1. CASE SkipChar(c)
      BY <3>1 DEF SkipChar, Writing, Sends, Receive, request
    <3>2. CASE StoreChar(c)
      BY <3>2 DEF StoreChar, Writing, Sends, Receive, Fail, Close
    <3>3. CASE LineTooLong(c)
      BY <3>3 DEF LineTooLong, Writing, Sends, Fail, Close, wvars
    <3> QED
      BY <2>1, <3>1, <3>2, <3>3
  <2>3. GoesOn
    BY <2>2 DEF GoesOn
  <2>4. pc # "copy"
    BY <2>2 DEF TapInv, Counters, Ascii
  <2>5. Counters'
    BY <1>0, <2>2, <2>4 DEF TapInv, Counters
  <2> QED
    BY <2>2, <2>3, <2>5, GrantedStays, AsciiStep DEF TapInv
<1>4. CASE NextBlock
  <2>1. /\ status = "open" /\ handler \in {"write_binary", "write_ascii"} /\ len' = 0
        /\ UNCHANGED <<status, handler, transfer, req, ptr, nleft, u32, version, pc,
                       wword, got, stored>>
    BY <1>4 DEF NextBlock, request, tapcp_state
  <2>2. GoesOn
    BY <2>1 DEF GoesOn
  <2>3. Counters'
    BY <1>0, <2>1 DEF TapInv, Counters, Ascii
  <2>4. Writer' /\ WordsStored'
    BY <2>1 DEF TapInv, Writer, WordsStored, Uploading, Total, Stored
  <2> QED
    BY <2>1, <2>2, <2>3, <2>4, GrantedStays, WriteStepKeeps DEF TapInv
<1>5. CASE EndUpload
  <2>1. /\ status = "open" /\ handler \in {"write_binary", "write_ascii"} /\ len' = 0
        /\ status' = "done" /\ handler' = "none"
        /\ UNCHANGED <<transfer, req, version, pc, wword, got, stored>>
    BY <1>5 DEF EndUpload, Close, wvars
  <2>2. GoesOn
    BY <2>1 DEF GoesOn
  <2>3. Counters'
    BY <1>0, <2>1 DEF TapInv, Counters, Ascii
  <2>4. Granted' /\ Writer' /\ WordsStored'
    BY <2>1, UploadEnds
  <2> QED
    BY <2>1, <2>2, <2>3, <2>4, WriteStepKeeps DEF TapInv
<1>6. CASE GoneAway
  <2>1. /\ status = "open" /\ pc = "loop" /\ status' = "lost" /\ handler' = "none"
        /\ UNCHANGED <<transfer, req, version, pc, len, wword, got, stored>>
    BY <1>6 DEF GoneAway, Abandon, Close, wvars
  <2>2. Counters'
    BY <2>1 DEF TapInv, Counters
  <2>3. Granted' /\ Writer' /\ WordsStored'
    BY <2>1, UploadEnds
  <2>4. BytesSent' /\ Reader'
    BY <2>1 DEF BytesSent, Reader, Reading
  <2> QED
    BY <2>2, <2>3, <2>4 DEF TapInv
<1> QED
  BY <1>1, <1>2, <1>3, <1>4, <1>5, <1>6

LEMMA TapInvHolds == Spec => []TapInv
<1>1. Init => TapInv
  <2> SUFFICES ASSUME Init PROVE TapInv
    OBVIOUS
  <2>1. <<0, 0, 0, 0>> \in Seq(Nat) /\ Len(<<0, 0, 0, 0>>) = 4
    OBVIOUS
  <2>2. /\ handler = "none" /\ status = "idle" /\ transfer = 0 /\ version = 0 /\ len = 0
        /\ pc = "loop" /\ got = 0 /\ stored = <<>> /\ wword = <<0, 0, 0, 0>>
    BY DEF Init, ReadInit
  <2>3. Counters
    BY <2>1, <2>2, ReadAssumption DEF Counters, ReadAssumption
  <2> QED
    BY <2>2, <2>3 DEF TapInv, Granted, BytesSent, Reader, Writer, WordsStored, Reading, Uploading
<1>2. TapInv /\ [Next]_vars => TapInv'
  <2> SUFFICES ASSUME TapInv, [Next]_vars PROVE TapInv'
    OBVIOUS
  <2>1. CASE OpenAny
    BY <2>1, OpenStep
  <2>2. CASE Forget
    BY <2>2, ForgetStep
  <2>3. CASE ReadStep /\ UNCHANGED wvars
    BY <2>3, ReadStepStep
  <2>4. CASE WriteByte \/ WriteByteFull \/ WriteChar \/ NextBlock \/ EndUpload \/ GoneAway
    BY <2>4, WriterSteps
  <2>5. CASE UNCHANGED vars
    <3>1. UNCHANGED <<status, handler, transfer, req, ptr, nleft, u32, word, version, pc, len, sent,
                      wword, got, stored>>
      BY <2>5 DEF vars, rvars, wvars, request, tapcp_state, statics
    <3>2. Counters' /\ Granted'
      BY <3>1 DEF TapInv, Counters, Granted
    <3>3. BytesSent' /\ Reader'
      BY <3>1 DEF TapInv, BytesSent, Reader, Reading, Total, FpgaWords, From, Place
    <3>4. Writer' /\ WordsStored'
      BY <3>1 DEF TapInv, Writer, WordsStored, Uploading, Total, Stored
    <3> QED
      BY <3>2, <3>3, <3>4 DEF TapInv
  <2> QED
    BY <2>1, <2>2, <2>3, <2>4, <2>5 DEF Next
<1> QED
  BY <1>1, <1>2, PTL DEF Spec

(***************************************************************************)
(* Recursive functions.                                                    *)
(***************************************************************************)
LEMMA Least ==
  ASSUME NEW T, T \subseteq Nat, T # {}
  PROVE  \E x \in T : \A y \in T : x <= y
<1> DEFINE R == {ss \in Nat \X Nat : ss[1] < ss[2]}
<1>1. IsWellFoundedOn(R, Nat)
  BY NatLessThanWellFounded, Zenon DEF OpToRel
<1>2. \A x, y \in Nat : y < x => <<y, x>> \in R
  OBVIOUS
<1> HIDE DEF R
<1>3. PICK x \in T : \A y \in T : ~(<<y, x>> \in R)
  BY <1>1, WFMin
<1>4. ASSUME NEW y \in T PROVE x <= y
  <2>1. x \in Nat /\ y \in Nat /\ <<y, x>> \notin R
    BY <1>3, <1>4
  <2>2. ~(y < x)
    BY <1>2, <2>1
  <2> QED
    BY <2>1, <2>2
<1> QED
  BY <1>4

\* hex_to_u32 stops inside a line that ends with a newline, behind a digit.
LEMMA HexStops ==
  ASSUME NEW buf, NEW n \in Nat, Len(buf) = n, n > 0, ~IsDigit(buf[n]),
         NEW p \in 1..n, IsDigit(buf[p])
  PROVE  LET e == HexEnd(buf, p)
         IN /\ e \in (p + 1)..n /\ e <= p + WordDigits
            /\ \A i \in p..(e - 1) : IsDigit(buf[i])
            /\ e = p + WordDigits \/ ~IsDigit(buf[e])
<1> DEFINE T == {i \in p..n : ~IsDigit(buf[i])}
           Ends(e) == /\ \A i \in p..(e - 1) : IsDigit(buf[i])
                      /\ e = p + WordDigits \/ ~IsDigit(buf[e])
           S == p..Smaller(p + WordDigits, Len(buf) + 1)
<1>0. WordDigits \in Nat /\ WordDigits > 0
  BY WriteAssumption DEF WriteAssumption
<1>1. n \in T /\ T \subseteq Nat
  OBVIOUS
<1>2. PICK s \in T : \A y \in T : s <= y
  <2> HIDE DEF T
  <2> QED
    BY <1>1, Least
<1>3. s \in p..n /\ ~IsDigit(buf[s]) /\ \A i \in p..(s - 1) : IsDigit(buf[i])
  <2>1. s \in p..n /\ ~IsDigit(buf[s])
    BY <1>2
  <2>2. ASSUME NEW i \in p..(s - 1), ~IsDigit(buf[i]) PROVE FALSE
    <3>1. i \in T
      BY <2>1, <2>2
    <3> QED
      BY <1>2, <2>1, <3>1
  <2> QED
    BY <2>1, <2>2
<1> HIDE DEF T
<1>4. \E e \in S : Ends(e)
  <2>1. CASE s <= p + WordDigits
    BY <1>0, <1>3, <2>1 DEF Smaller
  <2>2. CASE s > p + WordDigits
    <3>1. p + WordDigits \in S
      BY <1>0, <1>3, <2>2 DEF Smaller
    <3>2. Ends(p + WordDigits)
      BY <1>0, <1>3, <2>2
    <3> QED
      BY <3>1, <3>2
  <2> QED
    BY <1>0, <1>3, <2>1, <2>2
<1>5. HexEnd(buf, p) = CHOOSE e \in S : Ends(e)
  BY DEF HexEnd
<1> DEFINE e == HexEnd(buf, p)
<1>6. e \in S /\ Ends(e)
  <2> HIDE DEF S, Ends
  <2> QED
    BY <1>4, <1>5
<1>7. e \in Int /\ p <= e /\ e <= p + WordDigits
  BY <1>0, <1>6 DEF Smaller
<1> HIDE DEF e
<1>8. e # p
  BY <1>0, <1>6
<1>9. e <= n
  <2> SUFFICES ASSUME e > n PROVE FALSE
    BY <1>7
  <2>1. n \in p..(e - 1)
    BY <1>7
  <2> QED
    BY <1>6, <2>1
<1> QED
  BY <1>6, <1>7, <1>8, <1>9 DEF e

\* What the loop over a line does at p, if f is what it does from later places on.
Stop(p, left, full) == [words |-> <<>>, full |-> full, at |-> p, left |-> left]
After(buf, p, rest) == [rest EXCEPT !.words = <<Digits(buf, p, HexEnd(buf, p))>> \o @]
ParseFrom(buf, f, p, left) ==
  CASE buf[p].kind = "space" -> f[p + 1][left]
    [] ~IsDigit(buf[p]) /\ buf[p].kind # "space" -> Stop(p, left, FALSE)
    [] IsDigit(buf[p]) /\ NoRoom(left) -> Stop(p, left, TRUE)
    [] OTHER -> After(buf, p, f[HexEnd(buf, p)][IF left > 0 THEN left - WordSize ELSE left])

Parses(buf, f) == f = [p \in 1..Len(buf) |-> [left \in Int |-> ParseFrom(buf, f, p, left)]]

LEMMA ProcessLineIs ==
  ASSUME NEW buf, NEW n
  PROVE  ProcessLine(buf, n) = (CHOOSE f : Parses(buf, f))[1][n]
  BY DEF ProcessLine, Parses, ParseFrom, Stop, After

\* A line in line_buf: its end is no digit and no space.
Terminated(buf) == Len(buf) \in Nat /\ Len(buf) > 0 /\ buf[Len(buf)].kind = "newline"

\* Only what f does from later places on matters.
LEMMA ParseLooksAhead ==
  ASSUME NEW buf, Terminated(buf), NEW f, NEW g, NEW p \in 1..Len(buf), NEW left \in Int,
         \A q \in (p + 1)..Len(buf) : f[q] = g[q]
  PROVE  ParseFrom(buf, f, p, left) = ParseFrom(buf, g, p, left)
<1> DEFINE n == Len(buf)
<1>1. n \in Nat /\ n > 0 /\ ~IsDigit(buf[n]) /\ buf[n].kind # "space"
  BY DEF Terminated, IsDigit
<1>2. CASE buf[p].kind = "space"
  <2>1. p + 1 \in (p + 1)..n
    BY <1>1, <1>2
  <2> QED
    BY <1>2, <2>1 DEF ParseFrom, IsDigit
<1>3. CASE buf[p].kind # "space" /\ (~IsDigit(buf[p]) \/ NoRoom(left))
  BY <1>3 DEF ParseFrom
<1>4. CASE IsDigit(buf[p]) /\ ~NoRoom(left)
  <2> DEFINE e == HexEnd(buf, p)
             l == IF left > 0 THEN left - WordSize ELSE left
  <2>1. e \in (p + 1)..n
    BY <1>1, <1>4, HexStops
  <2>2. l \in Int
    BY DEF WordSize
  <2>3. f[e] = g[e]
    <3> HIDE DEF e, l, n
    <3> QED
      BY <2>1, <2>2 DEF n
  <2>4. \A h : ParseFrom(buf, h, p, left) = After(buf, p, h[e][l])
    BY <1>4 DEF ParseFrom, IsDigit
  <2> QED
    BY <2>3, <2>4
<1> QED
  BY <1>2, <1>3, <1>4 DEF IsDigit

LEMMA ParserExists ==
  ASSUME NEW buf, Terminated(buf)
  PROVE  \E f : Parses(buf, f)
<1> DEFINE n == Len(buf)
           Go(f, p) == [left \in Int |-> ParseFrom(buf, f, p, left)]
           Upto(f, j) == \A p \in (n + 1 - j)..n : p \in 1..n => f[p] = Go(f, p)
           IsF(f) == f = [p \in 1..n |-> f[p]]
           T == {j \in 0..n : ~\E f : IsF(f) /\ Upto(f, j)}
<1>1. n \in Nat
  BY DEF Terminated
<1>2. 0 \notin T
  <2> DEFINE D == [p \in 1..n |-> 0]
  <2>1. IsF(D)
    OBVIOUS
  <2>2. Upto(D, 0)
    BY <1>1
  <2> HIDE DEF D, IsF, Upto
  <2> QED
    BY <2>1, <2>2
<1>3. ASSUME NEW j \in 0..n, j # 0, j - 1 \notin T PROVE j \notin T
  <2>1. j - 1 \in 0..n
    BY <1>1, <1>3
  <2>2. PICK f : IsF(f) /\ Upto(f, j - 1)
    BY <1>3, <2>1
  <2> DEFINE q == n + 1 - j
             g == [p \in 1..n |-> IF p = q THEN Go(f, p) ELSE f[p]]
  <2> HIDE DEF Go
  <2>3. IsF(g)
    OBVIOUS
  <2>4. q \in 1..n
    BY <1>1, <1>3
  <2>5. \A p \in (q + 1)..n : f[p] = g[p]
    BY <1>1, <2>4
  <2>6. g[q] = Go(f, q)
    BY <2>4
  <2>7. \A p \in (q + 1)..n : f[p] = Go(f, p)
    BY <1>1, <2>2, <2>4
  <2> HIDE DEF q, g
  <2>8. ASSUME NEW p \in q..n PROVE g[p] = Go(g, p)
    <3>1. p \in 1..n
      BY <1>1, <2>4
    <3>2. \A x \in (p + 1)..n : f[x] = g[x]
      BY <1>1, <2>4, <2>5
    <3>3. \A l \in Int : ParseFrom(buf, f, p, l) = ParseFrom(buf, g, p, l)
      BY <3>1, <3>2, ParseLooksAhead
    <3>6. Go(f, p) = Go(g, p)
      BY <3>3 DEF Go
    <3>4. CASE p = q
      BY <2>6, <3>6, <3>4
    <3>5. CASE p # q
      <4>1. p \in (q + 1)..n
        BY <1>1, <2>4, <3>5
      <4> QED
        BY <2>5, <2>7, <3>6, <4>1
    <3> QED
      BY <3>4, <3>5
  <2>9. Upto(g, j)
    BY <2>8 DEF q
  <2> HIDE DEF IsF, Upto
  <2> QED
    BY <2>3, <2>9
<1>4. T = {}
  <2> SUFFICES ASSUME T # {} PROVE FALSE
    OBVIOUS
  <2>1. T \subseteq 0..n /\ T \subseteq Nat
    BY <1>1
  <2> HIDE DEF T
  <2>2. PICK j \in T : \A y \in T : j <= y
    BY <2>1, Least
  <2>3. j \in 0..n /\ j # 0
    BY <1>2, <2>1
  <2>4. j - 1 \notin T
    BY <1>1, <2>2, <2>3
  <2> QED
    BY <1>3, <2>3, <2>4
<1>5. n \in 0..n
  BY <1>1
<1>6. PICK f : IsF(f) /\ Upto(f, n)
  <2> HIDE DEF IsF, Upto
  <2> QED
    BY <1>4, <1>5
<1> HIDE DEF Go
<1>7. \A p \in 1..n : f[p] = Go(f, p)
  BY <1>1, <1>6
<1>8. f = [p \in 1..n |-> Go(f, p)]
  <2>1. [p \in 1..n |-> f[p]] = [p \in 1..n |-> Go(f, p)]
    BY <1>7
  <2> QED
    BY <1>6, <2>1
<1> QED
  BY <1>8, Zenon DEF Parses, Go

\* What the loop does with a line when left bytes of the region are left: the
\* words it writes fit, and it gives up only when no further word does.
WordsIn(buf) == {Digits(buf, p, e) : p \in 1..Len(buf), e \in 1..Len(buf)}

Parsed(buf, left, d) ==
  /\ d \in [words : Seq(WordsIn(buf)), full : BOOLEAN, at : 1..Len(buf), left : Int]
  /\ left >= 0 => /\ d.left = left - 4 * Len(d.words) /\ d.left >= 0
                  /\ d.full => d.left < 4

LEMMA ParsedAfter ==
  ASSUME NEW buf, NEW p \in 1..Len(buf), HexEnd(buf, p) \in 1..Len(buf), NEW left \in Int,
         NEW l \in Int, IF left > 0 THEN left >= 4 /\ l = left - 4 ELSE left < 0 /\ l = left,
         NEW d, Parsed(buf, l, d)
  PROVE  Parsed(buf, left, After(buf, p, d))
<1> DEFINE w == Digits(buf, p, HexEnd(buf, p))
           W == WordsIn(buf)
           ws == <<w>> \o d.words
           r == After(buf, p, d)
<1>1. w \in W
  BY DEF WordsIn
<1>2. /\ d \in [words : Seq(W), full : BOOLEAN, at : 1..Len(buf), left : Int]
      /\ left >= 0 => /\ d.left = left - 4 - 4 * Len(d.words) /\ d.left >= 0
                      /\ d.full => d.left < 4
  BY DEF Parsed
<1>3. d.words \in Seq(W) /\ Len(d.words) \in Nat
  BY <1>2
<1> HIDE DEF w, W
<1>4. ws \in Seq(W) /\ Len(ws) = 1 + Len(d.words)
  BY <1>1, <1>3
<1>5. r = [d EXCEPT !.words = ws]
  BY DEF After, w
<1> HIDE DEF ws, r
<1>6. /\ r \in [words : Seq(W), full : BOOLEAN, at : 1..Len(buf), left : Int]
      /\ r.words = ws /\ r.left = d.left
  BY <1>2, <1>4, <1>5
<1>8. r.full <=> d.full
  BY <1>2, <1>5
<1>7. left >= 0 => d.left = left - 4 * Len(ws)
  BY <1>2, <1>3, <1>4
<1> QED
  BY <1>2, <1>6, <1>7, <1>8 DEF Parsed, r, W

\* The loop, from every place of the line on.
LEMMA ParseIs ==
  ASSUME NEW buf, Terminated(buf), NEW f, Parses(buf, f)
  PROVE  \A p \in 1..Len(buf), left \in Int :
           f[p][left] = ParseFrom(buf, f, p, left) /\ Parsed(buf, left, f[p][left])
<1> DEFINE n == Len(buf)
           Good(p) == \A left \in Int : Parsed(buf, left, f[p][left])
           T == {j \in 0..(n - 1) : ~Good(n - j)}
<1>1. n \in Nat /\ n > 0 /\ ~IsDigit(buf[n]) /\ buf[n].kind # "space"
  BY DEF Terminated, IsDigit
<1>3. \A p \in 1..n, left \in Int : f[p][left] = ParseFrom(buf, f, p, left)
  <2>1. \A p \in 1..n : f[p] = [left \in Int |-> ParseFrom(buf, f, p, left)]
    BY Zenon DEF Parses
  <2> QED
    BY <2>1
<1>4. ASSUME NEW p \in 1..n, \A q \in (p + 1)..n : Good(q)
      PROVE  Good(p)
  <2> SUFFICES ASSUME NEW left \in Int PROVE Parsed(buf, left, ParseFrom(buf, f, p, left))
    BY <1>3
  <2>1. CASE buf[p].kind = "space"
    <3>1. p + 1 \in (p + 1)..n
      BY <1>1, <2>1
    <3>2. ParseFrom(buf, f, p, left) = f[p + 1][left]
      BY <2>1 DEF ParseFrom, IsDigit
    <3> QED
      BY <1>4, <3>1, <3>2
  <2>2. CASE buf[p].kind # "space" /\ (~IsDigit(buf[p]) \/ NoRoom(left))
    <3>1. PICK b \in BOOLEAN : ParseFrom(buf, f, p, left) = Stop(p, left, b) /\ (b => NoRoom(left))
      <4>1. CASE ~IsDigit(buf[p])
        BY <2>2, <4>1 DEF ParseFrom
      <4>2. CASE IsDigit(buf[p])
        BY <2>2, <4>2 DEF ParseFrom
      <4> QED
        BY <4>1, <4>2
    <3>2. <<>> \in Seq(WordsIn(buf)) /\ Len(<<>>) = 0
      OBVIOUS
    <3> QED
      BY <3>1, <3>2 DEF Parsed, Stop, NoRoom, WordSize
  <2>3. CASE IsDigit(buf[p]) /\ ~NoRoom(left)
    <3> DEFINE e == HexEnd(buf, p)
    <3>1. e \in (p + 1)..n
      BY <1>1, <2>3, HexStops
    <3> DEFINE l == IF left > 0 THEN left - 4 ELSE left
    <3>2. l \in Int /\ IF left > 0 THEN left >= 4 /\ l = left - 4 ELSE left < 0 /\ l = left
      BY <2>3 DEF NoRoom, WordSize
    <3>3. ParseFrom(buf, f, p, left) = After(buf, p, f[e][l])
      BY <2>3, <3>2 DEF ParseFrom, WordSize, IsDigit
    <3> HIDE DEF e, l
    <3>4. Parsed(buf, l, f[e][l])
      BY <1>4, <3>1, <3>2
    <3>5. e \in 1..Len(buf)
      BY <1>1, <3>1
    <3> HIDE DEF Good
    <3> QED
      BY <3>2, <3>3, <3>4, <3>5, ParsedAfter DEF e
  <2> QED
    BY <2>1, <2>2, <2>3 DEF IsDigit
<1> HIDE DEF Good
<1>5. T = {}
  <2> SUFFICES ASSUME T # {} PROVE FALSE
    OBVIOUS
  <2>1. T \subseteq Nat
    BY <1>1
  <2>2. PICK j \in T : \A y \in T : j <= y
    <3> HIDE DEF T
    <3> QED
      BY <2>1, Least
  <2>3. j \in 0..(n - 1) /\ ~Good(n - j)
    OBVIOUS
  <2>4. ASSUME NEW q \in (n - j + 1)..n PROVE Good(q)
    <3>1. n - q \in 0..(n - 1) /\ n - q < j /\ n - (n - q) = q /\ n - q \in Nat
      BY <1>1, <2>3
    <3>2. n - q \notin T
      <4> HIDE DEF T
      <4> QED
        BY <2>2, <2>3, <3>1
    <3> QED
      BY <3>1, <3>2
  <2>5. n - j \in 1..n
    BY <1>1, <2>3
  <2> QED
    BY <1>4, <2>3, <2>4, <2>5
<1>6. ASSUME NEW p \in 1..n PROVE Good(p)
  <2>1. n - p \in 0..(n - 1) /\ n - (n - p) = p
    BY <1>1
  <2> QED
    BY <1>5, <2>1
<1> QED
  BY <1>3, <1>6 DEF Good

LEMMA ParseResult ==
  ASSUME NEW buf, Terminated(buf), NEW left0 \in Int
  PROVE  Parsed(buf, left0, ProcessLine(buf, left0))
<1> DEFINE f == CHOOSE f : Parses(buf, f)
<1>1. Parses(buf, f)
  BY ParserExists
<1>2. ProcessLine(buf, left0) = f[1][left0]
  BY ProcessLineIs
<1>3. 1 \in 1..Len(buf)
  BY DEF Terminated
<1> HIDE DEF f
<1> QED
  BY <1>1, <1>2, <1>3, ParseIs

(***************************************************************************)
(* The invariant of the ASCII writer.                                      *)
(***************************************************************************)
IsSeq(s) == s \in Seq({s[i] : i \in 1..Len(s)})

\* Where the writer is in line_buf, and how much of the line it has seen.
AsciiText ==
  /\ IsSeq(line_buf) /\ IsSeq(line) /\ nleft \in Int
  /\ status = "idle" => line = <<>>
  /\ status = "open" /\ handler = "write_ascii" =>
       /\ plb \in Nat /\ plb <= Len(line_buf) /\ lidx \in Nat /\ lidx <= plb
       /\ lidx <= Len(line)

\* nleft and ptr say where the ASCII writer goes on.
AsciiWriter ==
  status = "open" /\ handler = "write_ascii" /\ Sensible(req) =>
    /\ nleft = Total - 4 * Len(stored)
    /\ nleft > 0 => ptr = Start(req) + 4 * Len(stored)

\* It has stored words at successive addresses of its region, and it was cut off
\* only where no word fits or in a line that is too long.
AsciiStored ==
  Uploading /\ ~req.binary =>
    /\ IsSeq(stored) /\ 4 * Len(stored) <= Total
    /\ \A k \in 1..Len(stored) : stored[k].at = Start(req) + 4 * (k - 1)
    /\ status = "failed" => Len(stored) = Total \div 4 \/ Len(line) >= LineBufSize

WriteInv == AsciiText /\ AsciiWriter /\ AsciiStored

LEMMA SeqIs ==
  ASSUME NEW S, NEW r \in Seq(S)
  PROVE  IsSeq(r)
<1> DEFINE T == {r[i] : i \in 1..Len(r)}
<1>1. r = [i \in 1..Len(r) |-> r[i]] /\ Len(r) \in Nat
  OBVIOUS
<1>2. \A i \in 1..Len(r) : r[i] \in T
  OBVIOUS
<1> HIDE DEF T
<1>3. [i \in 1..Len(r) |-> r[i]] \in Seq(T)
  BY <1>1, <1>2
<1> QED
  BY <1>1, <1>3 DEF T, IsSeq

LEMMA EmptyIsSeq == IsSeq(<<>>) /\ Len(<<>>) = 0
  BY SeqIs DEF IsSeq

LEMMA AppendIsSeq ==
  ASSUME NEW s, IsSeq(s), NEW c
  PROVE  IsSeq(Append(s, c)) /\ Len(s) \in Nat /\ Len(Append(s, c)) = Len(s) + 1
         /\ Append(s, c)[Len(s) + 1] = c
         /\ \A i \in 1..Len(s) : Append(s, c)[i] = s[i]
<1> DEFINE S == {s[i] : i \in 1..Len(s)}
<1>1. s \in Seq(S)
  BY DEF IsSeq
<1> HIDE DEF S
<1>2. s \in Seq(S \cup {c}) /\ c \in S \cup {c}
  BY <1>1
<1>3. Append(s, c) \in Seq(S \cup {c})
  BY <1>2
<1>4. IsSeq(Append(s, c))
  BY <1>3, SeqIs
<1> QED
  BY <1>1, <1>2, <1>4

\* The sequence r is s followed by t.
Joined(s, t, r) ==
  /\ IsSeq(r) /\ Len(s) \in Nat /\ Len(t) \in Nat
  /\ Len(r) = Len(s) + Len(t)
  /\ \A i \in 1..Len(s) : r[i] = s[i]
  /\ \A i \in 1..Len(t) : r[Len(s) + i] = t[i]

LEMMA ConcatIsSeq ==
  ASSUME NEW s, IsSeq(s), NEW t, IsSeq(t)
  PROVE  Joined(s, t, s \o t)
<1> DEFINE S == {s[i] : i \in 1..Len(s)}
           T == {t[i] : i \in 1..Len(t)}
<1>1. s \in Seq(S) /\ t \in Seq(T)
  BY DEF IsSeq
<1> HIDE DEF S, T
<1>2. s \in Seq(S \cup T) /\ t \in Seq(S \cup T)
  BY <1>1
<1>3. /\ s \o t \in Seq(S \cup T) /\ Len(s \o t) = Len(s) + Len(t)
      /\ \A i \in 1..(Len(s) + Len(t)) :
           (s \o t)[i] = IF i <= Len(s) THEN s[i] ELSE t[i - Len(s)]
  BY <1>2, ConcatProperties
<1>4. IsSeq(s \o t)
  BY <1>3, SeqIs
<1>5. Len(s) \in Nat /\ Len(t) \in Nat
  BY <1>1
<1>6. \A i \in 1..Len(t) : (s \o t)[Len(s) + i] = t[i]
  <2> SUFFICES ASSUME NEW i \in 1..Len(t) PROVE (s \o t)[Len(s) + i] = t[i]
    OBVIOUS
  <2>1. Len(s) + i \in 1..(Len(s) + Len(t)) /\ ~(Len(s) + i <= Len(s)) /\ Len(s) + i - Len(s) = i
    BY <1>5
  <2> QED
    BY <1>3, <2>1
<1> QED
  BY <1>3, <1>4, <1>5, <1>6 DEF Joined

LEMMA FunctionIsSeq ==
  ASSUME NEW n \in Nat, NEW f, f = [i \in 1..n |-> f[i]]
  PROVE  IsSeq(f) /\ Len(f) = n
<1> DEFINE S == {f[i] : i \in 1..n}
<1>1. \A i \in 1..n : f[i] \in S
  OBVIOUS
<1> HIDE DEF S
<1>2. [i \in 1..n |-> f[i]] \in Seq(S) /\ Len([i \in 1..n |-> f[i]]) = n
  BY <1>1
<1> QED
  BY <1>2, SeqIs

\* The characters of line_buf before plb, and a new one.
LEMMA PutChar ==
  ASSUME NEW s, IsSeq(s), NEW n \in Nat, n <= Len(s), NEW c
  PROVE  LET r == SubSeq(s, 1, n) \o <<c>>
         IN IsSeq(r) /\ Len(r) = n + 1 /\ r[n + 1] = c /\ \A i \in 1..n : r[i] = s[i]
<1> DEFINE S == {s[i] : i \in 1..Len(s)}
           a == SubSeq(s, 1, n)
           b == <<c>>
<1>1. s \in Seq(S)
  BY DEF IsSeq
<1> HIDE DEF S
<1>2. a \in Seq(S) /\ Len(a) = n /\ \A i \in 1..n : a[i] = s[i]
  BY <1>1
<1>3. b \in Seq({c}) /\ Len(b) = 1 /\ b[1] = c
  OBVIOUS
<1> HIDE DEF a, b
<1>4. IsSeq(a) /\ IsSeq(b)
  BY <1>2, <1>3, SeqIs
<1>5. 1 \in 1..Len(b)
  BY <1>3
<1>6. /\ IsSeq(a \o b) /\ Len(a \o b) = Len(a) + Len(b)
      /\ (a \o b)[Len(a) + 1] = b[1]
      /\ \A i \in 1..Len(a) : (a \o b)[i] = a[i]
  BY <1>4, <1>5, ConcatIsSeq DEF Joined
<1> QED
  BY <1>2, <1>3, <1>6 DEF a, b

\* A session of the ASCII writer.
LEMMA AsciiUpload ==
  ASSUME TapInv, WriteInv, status = "open", handler = "write_ascii", Sensible(req)
  PROVE  /\ req \in Requests /\ req.write /\ ~req.binary /\ Uploading /\ OpensWrite(req)
         /\ Start(req) \in Nat /\ Start(req) % 4 = 0 /\ Total \in Nat /\ Start(req) + Total <= AddrMod
         /\ IsSeq(stored) /\ Len(stored) \in Nat /\ 4 * Len(stored) <= Total
         /\ nleft = Total - 4 * Len(stored) /\ nleft \in Nat
         /\ nleft > 0 => ptr = Start(req) + 4 * Len(stored)
<1>1. req \in Requests /\ OpenRequest(req).ok /\ req.write /\ ~req.binary
  BY SessionIs DEF TapInv
<1>2. OpensWrite(req) /\ Uploading
  BY <1>1, OpensToWrite DEF Uploading
<1>3. IsSeq(stored) /\ 4 * Len(stored) <= Total
  BY <1>1, <1>2 DEF WriteInv, AsciiStored
<1>4. Start(req) \in Nat /\ Start(req) % 4 = 0 /\ Total \in Nat /\ Start(req) + Total <= AddrMod
  BY <1>2 DEF OpensWrite, Total
<1>5. Len(stored) \in Nat
  BY <1>3 DEF IsSeq
<1>6. nleft = Total - 4 * Len(stored) /\ (nleft > 0 => ptr = Start(req) + 4 * Len(stored))
  BY DEF WriteInv, AsciiWriter
<1> QED
  BY <1>1, <1>2, <1>3, <1>4, <1>5, <1>6

\* The address behind L words of T bytes from S on, of which n are left; and what W
\* words more do, that leave l.
Place4(S, L, T, n, p) ==
  /\ S \in Nat /\ L \in Nat /\ T \in Nat /\ n \in Nat
  /\ S % 4 = 0 /\ S + T <= AddrMod /\ n = T - 4 * L /\ (n > 0 => p = S + 4 * L)

Advances(S, L, T, W, l, p) ==
  /\ \A k \in 1..W : AlignDown(U32(p + 4 * (k - 1))) = S + 4 * (L + k - 1)
  /\ l > 0 => U32(p + 4 * W) = S + 4 * (L + W)
  /\ l = T - 4 * (L + W) /\ 4 * (L + W) <= T
  /\ l < 4 => L + W = T \div 4

LEMMA FourMoreWords ==
  ASSUME NEW S, NEW L, NEW T, NEW n, NEW W \in Nat, NEW l \in Nat, NEW p,
         Place4(S, L, T, n, p), l = n - 4 * W
  PROVE  Advances(S, L, T, W, l, p)
<1>0. /\ S \in Nat /\ L \in Nat /\ T \in Nat /\ n \in Nat
      /\ S % 4 = 0 /\ S + T <= AddrMod /\ n = T - 4 * L /\ (n > 0 => p = S + 4 * L)
  BY DEF Place4
<1>1. ASSUME NEW k \in 1..W PROVE AlignDown(U32(p + 4 * (k - 1))) = S + 4 * (L + k - 1)
  <2> DEFINE a == S + 4 * (L + k - 1)
  <2>1. p + 4 * (k - 1) = a /\ a \in Nat /\ a < AddrMod
    BY <1>0, <1>1, Modulus
  <2>2. a % 4 = 0
    <3>1. (4 * (L + k - 1)) % 4 = 0
      BY <1>0
    <3> QED
      BY <1>0, <3>1, FourMore
  <2> HIDE DEF a
  <2> QED
    BY <2>1, <2>2, Exact, AlignedIs DEF a
<1>2. ASSUME l > 0 PROVE U32(p + 4 * W) = S + 4 * (L + W)
  <2> DEFINE a == S + 4 * (L + W)
  <2>1. p + 4 * W = a /\ a \in Nat /\ a < AddrMod
    BY <1>0, <1>2, Modulus
  <2> HIDE DEF a
  <2> QED
    BY <2>1, Exact DEF a
<1>3. l = T - 4 * (L + W) /\ 4 * (L + W) <= T
  BY <1>0
<1>4. l < 4 => L + W = T \div 4
  BY <1>0, <1>3
<1> QED
  BY <1>1, <1>2, <1>3, <1>4 DEF Advances

\* A newline: the line is stored, and the words behind those stored before.
LEMMA EndOfLineStep ==
  ASSUME TapInv, WriteInv, NEW c, c.kind = "newline", StoreChar(c), Sensible(req)
  PROVE  AsciiWriter' /\ AsciiStored'
<1> DEFINE buf == SubSeq(line_buf, 1, plb) \o <<c>>
           done == ProcessLine(buf, nleft)
           ws == Writes(done.words)
           L == Len(stored)
           W == Len(done.words)
           S == Start(req)
           T == Total
<1>1. /\ status = "open" /\ handler = "write_ascii" /\ line_buf' = buf
      /\ stored' = stored \o ws /\ req' = req
      /\ IF done.full THEN status' = "failed" /\ handler' = "none"
         ELSE /\ ptr' = U32(ptr + WordSize * W) /\ nleft' = done.left
              /\ UNCHANGED <<handler, status>>
  BY DEF StoreChar, Writing, Fail, Close
<1>2. /\ req.write /\ ~req.binary /\ Uploading
      /\ S \in Nat /\ S % 4 = 0 /\ T \in Nat /\ S + T <= AddrMod
      /\ IsSeq(stored) /\ L \in Nat /\ 4 * L <= T /\ nleft = T - 4 * L /\ nleft \in Nat
      /\ nleft > 0 => ptr = S + 4 * L
  BY <1>1, AsciiUpload
<1>3. plb \in Nat /\ plb <= Len(line_buf) /\ IsSeq(line_buf)
  BY <1>1 DEF WriteInv, AsciiText
<1>4. Len(buf) = plb + 1 /\ buf[plb + 1] = c
  BY <1>3, PutChar
<1>5. Terminated(buf)
  <2> HIDE DEF buf
  <2> QED
    BY <1>3, <1>4 DEF Terminated
<1>6. Parsed(buf, nleft, done)
  <2> HIDE DEF buf
  <2> QED
    BY <1>2, <1>5, ParseResult
<1> HIDE DEF buf, done, T, S, L
<1>7. /\ done.words \in Seq(WordsIn(buf)) /\ W \in Nat /\ done.left \in Nat
      /\ done.left = nleft - 4 * W /\ (done.full => done.left < 4)
  BY <1>2, <1>6 DEF Parsed
<1> HIDE DEF W
<1>8. /\ \A k \in 1..W : AlignDown(U32(ptr + 4 * (k - 1))) = S + 4 * (L + k - 1)
      /\ done.left > 0 => U32(ptr + 4 * W) = S + 4 * (L + W)
      /\ done.left = T - 4 * (L + W) /\ 4 * (L + W) <= T
      /\ done.left < 4 => L + W = T \div 4
  <2>1. Place4(S, L, T, nleft, ptr)
    BY <1>2 DEF Place4
  <2>2. Advances(S, L, T, W, done.left, ptr)
    BY <1>7, <2>1, FourMoreWords
  <2> QED
    BY <2>2 DEF Advances
<1>9. /\ ws = [k \in 1..W |-> ws[k]]
      /\ \A k \in 1..W : ws[k].at = AlignDown(U32(ptr + 4 * (k - 1)))
  BY DEF Writes, W, WordSize
<1> HIDE DEF ws
<1>10. IsSeq(ws) /\ Len(ws) = W
  BY <1>7, <1>9, FunctionIsSeq
<1>11. /\ IsSeq(stored') /\ Len(stored') = L + W
       /\ \A i \in 1..L : stored'[i] = stored[i]
       /\ \A i \in 1..W : stored'[L + i] = ws[i]
  <2>1. Joined(stored, ws, stored \o ws)
    BY <1>2, <1>10, ConcatIsSeq, Zenon
  <2>2. Joined(stored, ws, stored')
    BY <1>1, <2>1, Zenon
  <2> QED
    BY <1>10, <2>2 DEF L, Joined
<1>12. \A k \in 1..Len(stored') : stored'[k].at = S + 4 * (k - 1)
  <2> SUFFICES ASSUME NEW k \in 1..(L + W) PROVE stored'[k].at = S + 4 * (k - 1)
    BY <1>11
  <2>1. CASE k <= L
    <3>1. k \in 1..L
      BY <1>2, <1>7, <2>1
    <3>2. stored[k].at = S + 4 * (k - 1)
      BY <1>2, <3>1 DEF WriteInv, AsciiStored, S, L
    <3> QED
      BY <1>11, <3>1, <3>2
  <2>2. CASE k > L
    <3>1. k - L \in 1..W /\ L + (k - L) = k /\ L + (k - L) - 1 = k - 1
      BY <1>2, <1>7, <2>2
    <3> QED
      BY <1>8, <1>9, <1>11, <3>1
  <2> QED
    BY <1>2, <1>7, <2>1, <2>2
<1>13. Start(req)' = S /\ Total' = T
  BY <1>1 DEF S, T, Total
<1>14. AsciiWriter'
  <2> SUFFICES ASSUME ~done.full PROVE AsciiWriter'
    BY <1>1 DEF AsciiWriter
  <2>1. ptr' = U32(ptr + 4 * W) /\ nleft' = done.left
    BY <1>1 DEF WordSize
  <2> QED
    BY <1>8, <1>11, <1>13, <2>1 DEF AsciiWriter
<1>15. status' = "failed" => Len(stored') = T \div 4
  BY <1>1, <1>7, <1>8, <1>11
<1>16. AsciiStored'
  BY <1>8, <1>11, <1>12, <1>13, <1>15 DEF AsciiStored
<1> QED
  BY <1>14, <1>16

\* A line or its beginning, whatever the request.
LEMMA StoreCharText ==
  ASSUME WriteInv, NEW c, StoreChar(c)
  PROVE  AsciiText'
<1> DEFINE buf == SubSeq(line_buf, 1, plb) \o <<c>>
           done == ProcessLine(buf, nleft)
<1>1. /\ status = "open" /\ handler = "write_ascii" /\ line_buf' = buf
      /\ line' = IF c.kind = "newline" THEN <<>> ELSE Append(line, c)
      /\ c.kind # "newline" => /\ plb' = plb + 1 /\ lidx' = lidx + 1 /\ nleft' = nleft
                               /\ UNCHANGED <<handler, status>>
      /\ c.kind = "newline" =>
           \/ status' = "failed" /\ nleft' = 0
           \/ lidx' = 0 /\ plb' = done.at - 1 /\ nleft' = done.left /\ status' = "open"
  BY DEF StoreChar, Writing, Fail, Close, Receive, EndOfLine
<1>2. /\ IsSeq(line_buf) /\ IsSeq(line) /\ plb \in Nat /\ plb <= Len(line_buf)
      /\ lidx \in Nat /\ lidx <= plb /\ lidx <= Len(line) /\ nleft \in Int
  BY <1>1 DEF WriteInv, AsciiText
<1>3. IsSeq(buf) /\ Len(buf) = plb + 1 /\ buf[plb + 1] = c
  BY <1>2, PutChar
<1>4. IsSeq(line')
  BY <1>1, <1>2, EmptyIsSeq, AppendIsSeq
<1> HIDE DEF buf
<1>5. CASE c.kind = "newline"
  <2>3. Terminated(buf)
    BY <1>2, <1>3, <1>5 DEF Terminated
  <2>4. done.at \in 1..(plb + 1) /\ done.left \in Int
    BY <1>2, <1>3, <2>3, ParseResult DEF Parsed
  <2> HIDE DEF done
  <2>5. done.at - 1 \in Nat /\ done.at - 1 <= plb + 1
    BY <1>2, <2>4
  <2> QED
    BY <1>1, <1>3, <1>4, <1>5, <2>4, <2>5, EmptyIsSeq DEF AsciiText
<1>6. CASE c.kind # "newline"
  <2>1. UNCHANGED <<handler, status, nleft>> /\ plb' = plb + 1 /\ lidx' = lidx + 1
    BY <1>1, <1>6
  <2>2. line' = Append(line, c) /\ Len(line) \in Nat /\ Len(line') = Len(line) + 1
    BY <1>1, <1>2, <1>6, AppendIsSeq
  <2> QED
    BY <1>1, <1>2, <1>3, <1>4, <2>1, <2>2 DEF AsciiText
<1> QED
  BY <1>5, <1>6

LEMMA SkipCharText ==
  ASSUME WriteInv, NEW c, SkipChar(c)
  PROVE  AsciiText'
<1>1. /\ status = "open" /\ handler = "write_ascii" /\ UNCHANGED <<status, handler, nleft, line_buf>>
      /\ line' = IF c.kind = "newline" THEN <<>> ELSE Append(line, c)
      /\ \/ lidx = 0 /\ UNCHANGED <<lidx, plb>>
         \/ plb' = 0 /\ lidx' = 0
  BY DEF SkipChar, Writing, Receive, request, statics
<1>2. /\ IsSeq(line_buf) /\ IsSeq(line) /\ plb \in Nat /\ plb <= Len(line_buf)
      /\ lidx \in Nat /\ lidx <= plb /\ lidx <= Len(line) /\ nleft \in Int
  BY <1>1 DEF WriteInv, AsciiText
<1>3. IsSeq(line') /\ Len(line') \in Nat
  BY <1>1, <1>2, EmptyIsSeq, AppendIsSeq
<1>4. Len(line_buf) \in Nat
  BY <1>2 DEF IsSeq
<1> QED
  BY <1>1, <1>2, <1>3, <1>4 DEF AsciiText

\* A step of the ASCII writer.
LEMMA WriteCharStep ==
  ASSUME TapInv, WriteInv, WriteChar
  PROVE  WriteInv'
<1>1. PICK c : SkipChar(c) \/ StoreChar(c) \/ LineTooLong(c)
  BY DEF WriteChar
<1>2. /\ status = "open" /\ handler = "write_ascii" /\ req' = req
      /\ status' \in {"open", "failed"} /\ (status' = "open" => handler' = handler)
  <2>1. CASE SkipChar(c)
    BY <2>1 DEF SkipChar, Writing, request
  <2>2. CASE StoreChar(c)
    BY <2>2 DEF StoreChar, Writing, Fail
  <2>3. CASE LineTooLong(c)
    BY <2>3 DEF LineTooLong, Writing, Fail
  <2> QED
    BY <1>1, <2>1, <2>2, <2>3
<1>3. AsciiText'
  <2>1. CASE LineTooLong(c)
    <3>1. status' = "failed" /\ nleft' = 0 /\ UNCHANGED <<line_buf, line>>
      BY <2>1 DEF LineTooLong, Fail, Close, statics, wvars
    <3> QED
      BY <3>1 DEF WriteInv, AsciiText
  <2> QED
    BY <1>1, <2>1, StoreCharText, SkipCharText
<1>4. CASE ~Sensible(req)
  BY <1>2, <1>3, <1>4 DEF WriteInv, AsciiWriter, AsciiStored, Uploading
<1>5. CASE Sensible(req)
  <2>1. Uploading /\ ~req.binary
    BY <1>2, <1>5, AsciiUpload
  <2>2. CASE StoreChar(c) /\ c.kind = "newline"
    BY <1>3, <1>5, <2>2, EndOfLineStep DEF WriteInv
  <2>3. CASE SkipChar(c) \/ (StoreChar(c) /\ c.kind # "newline")
    <3>1. UNCHANGED <<status, handler, req, ptr, nleft, stored>>
      <4>1. CASE SkipChar(c)
        BY <4>1 DEF SkipChar, request
      <4>2. CASE StoreChar(c) /\ c.kind # "newline"
        BY <4>2 DEF StoreChar
      <4> QED
        BY <2>3, <4>1, <4>2
    <3>2. AsciiWriter'
      BY <3>1 DEF WriteInv, AsciiWriter, Total
    <3>3. AsciiStored'
      BY <1>2, <2>1, <3>1 DEF WriteInv, AsciiStored, Total
    <3> QED
      BY <1>3, <3>2, <3>3 DEF WriteInv
  <2>4. CASE LineTooLong(c)
    <3>1. status' = "failed" /\ UNCHANGED <<req, line, stored>> /\ lidx >= LineBufSize
      BY <2>4 DEF LineTooLong, Fail, wvars
    <3>2. lidx \in Nat /\ lidx <= Len(line) /\ IsSeq(line) /\ LineBufSize \in Nat
      BY <1>2, WriteAssumption DEF WriteInv, AsciiText, WriteAssumption
    <3>3. Len(line) \in Nat
      BY <3>2 DEF IsSeq
    <3>4. Len(line) >= LineBufSize
      BY <3>1, <3>2, <3>3
    <3>5. AsciiWriter'
      BY <3>1 DEF AsciiWriter
    <3>6. AsciiStored'
      BY <2>1, <3>1, <3>4 DEF WriteInv, AsciiStored, Total
    <3> QED
      BY <1>3, <3>5, <3>6 DEF WriteInv
  <2> QED
    BY <1>1, <2>2, <2>3, <2>4
<1> QED
  BY <1>4, <1>5

\* A count of bytes, whatever the request.
LEMMA CountIs ==
  ASSUME NEW r \in Requests, OpenRequest(r).ok
  PROVE  OpenRequest(r).nleft \in Int
<1>1. /\ r.off \in Nat /\ r.len \in Int /\ r.cmd \in {"dev", "fpga", "cpu"} \cup DOMAIN Texts
  BY RequestIs
<1>2. \A n \in Int : Int32(n) \in Int /\ U32(n) \in Int
  BY Modulus DEF Int32, U32
<1>3. CASE r.cmd \in DOMAIN Texts
  <2>1. r.cmd \notin {"dev", "fpga", "cpu"} /\ Texts[r.cmd].bytes \in Nat
    BY <1>3, TextIs
  <2>2. OpenRequest(r) = OpenText(r)
    BY <1>3, <2>1 DEF OpenRequest
  <2> QED
    BY <2>1, <2>2 DEF OpenText, Opened, Refused
<1>4. CASE r.cmd \in {"fpga", "cpu"}
  <2> DEFINE off == AlignDown(r.off)
             l == AlignUp(IF r.write \/ r.len = None THEN 1 ELSE r.len)
  <2>1. off \in Int /\ FpgaBytes \in Int
    BY <1>1, Aligned, Modulus
  <2>2. l \in Int
    BY <1>1, Modulus DEF AlignUp, AlignDown, U32, WordSize
  <2>3. OpenRequest(r) = OpenMem(r)
    BY <1>4, TextIs DEF OpenRequest
  <2> HIDE DEF off, l
  <2>4. Int32(IF r.write THEN FpgaBytes - off ELSE l) \in Int
    BY <1>2, <2>1, <2>2
  <2>5. OpenMem(r).ok => OpenMem(r).nleft = Int32(IF r.write THEN FpgaBytes - off ELSE l)
    BY DEF OpenMem, Opened, Refused, off, l
  <2> QED
    BY <2>3, <2>4, <2>5
<1>5. CASE r.cmd = "dev"
  <2>1. r.cmd \notin DOMAIN Texts
    BY <1>5, TextIs
  <2>2. OpenRequest(r) = OpenDev(r)
    BY <1>5, <2>1 DEF OpenRequest
  <2>3. r.name \in DOMAIN Devices
    BY <2>2 DEF OpenDev, Refused
  <2> DEFINE n == IF r.write \/ r.len \in {None, 0}
                    THEN U32((Devices[r.name].length \div WordSize) - r.off) ELSE r.len
  <2>4. n \in Int
    <3>1. (Devices[r.name].length \div WordSize) - r.off \in Int
      BY <1>1, <2>3, DeviceIs DEF WordSize
    <3> QED
      BY <1>1, <1>2, <3>1
  <2>5. OpenDev(r).ok => OpenDev(r).nleft = Int32(WordSize * n)
    BY <2>3 DEF OpenDev, Opened, Refused
  <2> HIDE DEF n
  <2>6. WordSize * n \in Int
    BY <2>4 DEF WordSize
  <2> QED
    BY <1>2, <2>2, <2>5, <2>6
<1> QED
  BY <1>1, <1>3, <1>4, <1>5

LEMMA WriteOpen ==
  ASSUME TapInv, WriteInv, OpenAny
  PROVE  WriteInv'
<1>1. PICK r \in Requests : Open(r) /\ plb' = 0 /\ UNCHANGED <<line, stored>>
  BY DEF OpenAny
<1>2. status = "idle" /\ req' = r /\ UNCHANGED line_buf
  BY <1>1 DEF Open, statics
<1>3. stored' = <<>> /\ IsSeq(line_buf) /\ line = <<>> /\ nleft \in Int
  BY <1>1, <1>2 DEF TapInv, Granted, WriteInv, AsciiText
<1>4. Len(line_buf) \in Nat
  BY <1>3 DEF IsSeq
<1>5. CASE ~OpenRequest(r).ok
  <2>1. status' = "refused" /\ nleft' = nleft
    BY <1>1, <1>5 DEF Open
  <2> QED
    BY <1>1, <1>2, <1>3, <2>1, EmptyIsSeq
    DEF WriteInv, AsciiText, AsciiWriter, AsciiStored, Uploading
<1>6. CASE OpenRequest(r).ok
  <2>1. /\ status' = "open" /\ handler' = Handler(r) /\ ptr' = OpenRequest(r).ptr
        /\ nleft' = OpenRequest(r).nleft /\ (Handler(r) = "write_ascii" => lidx' = 0)
    BY <1>1, <1>6 DEF Open
  <2>2. nleft' \in Int
    BY <1>6, <2>1, CountIs
  <2>3. AsciiText'
    BY <1>1, <1>2, <1>3, <1>4, <2>1, <2>2, EmptyIsSeq DEF AsciiText
  <2>4. ASSUME Sensible(r), r.write
        PROVE  /\ nleft' \in Nat /\ Start(r) \in Nat
               /\ nleft' = OpenRequest(r).nleft /\ ptr' = Start(r)
    BY <1>6, <2>1, <2>4, OpensToWrite DEF OpensWrite
  <2>5. AsciiWriter'
    <3> SUFFICES ASSUME Handler(r) = "write_ascii", Sensible(r) PROVE AsciiWriter'
      BY <1>2, <2>1 DEF AsciiWriter
    <3>1. r.write
      BY <1>6, HandlerIs DEF Binary, Ascii
    <3>2. Total' = nleft'
      BY <1>2, <2>1 DEF Total
    <3>3. /\ \A n \in Int : n = n - 4 * 0
          /\ Start(r) = Start(r) + 4 * 0
      BY <2>4, <3>1
    <3> QED
      BY <1>2, <1>3, <2>2, <2>4, <3>1, <3>2, <3>3, EmptyIsSeq DEF AsciiWriter
  <2>6. AsciiStored'
    <3> SUFFICES ASSUME r.write, Sensible(r) PROVE AsciiStored'
      BY <1>2 DEF AsciiStored, Uploading
    <3>1. Total' \in Nat
      BY <1>2, <2>1, <2>4 DEF Total
    <3>2. 4 * 0 <= Total' /\ 1..0 = {}
      BY <3>1
    <3> QED
      BY <1>3, <2>1, <3>2, EmptyIsSeq DEF AsciiStored
  <2> QED
    BY <2>3, <2>5, <2>6 DEF WriteInv
<1> QED
  BY <1>5, <1>6

\* A step that takes nothing from an ASCII upload.
LEMMA WriteIdle ==
  ASSUME TapInv, WriteInv, IsSeq(line_buf'), nleft' \in Int, status = "open",
         UNCHANGED <<req, line, stored>>,
         \/ status' = "open" /\ handler' = handler /\ handler # "write_ascii"
         \/ status' \in {"done", "lost"}
         \/ status' = "failed" /\ handler = "write_binary"
  PROVE  WriteInv'
<1>1. AsciiText'
  BY DEF WriteInv, AsciiText
<1>2. AsciiWriter'
  BY DEF AsciiWriter
<1>3. status' = "failed" => req.binary
  BY SessionIs DEF TapInv
<1>4. AsciiStored'
  BY <1>3 DEF WriteInv, AsciiStored, Uploading, Total
<1> QED
  BY <1>1, <1>2, <1>4 DEF WriteInv

\* A line: its label, its data, the newline.
LineText(a, n, f) == <<a>> \o [k \in 1..n |-> f[k]] \o <<Newline>>

LEMMA LineTextIs ==
  ASSUME NEW a, NEW n \in Nat, NEW f
  PROVE  LET s == LineText(a, n, f)
         IN /\ IsSeq(s) /\ Len(s) = n + 2 /\ s[1] = a /\ s[n + 2] = Newline
            /\ \A k \in 1..n : s[k + 1] = f[k]
<1> DEFINE data == [k \in 1..n |-> f[k]]
           b == <<a>> \o data
           s == b \o <<Newline>>
           y == <<a>>
           z == <<Newline>>
<1>1. IsSeq(data) /\ Len(data) = n /\ \A k \in 1..n : data[k] = f[k]
  <2>1. data = [k \in 1..n |-> data[k]] /\ \A k \in 1..n : data[k] = f[k]
    OBVIOUS
  <2> HIDE DEF data
  <2> QED
    BY <2>1, FunctionIsSeq
<1>2. IsSeq(y) /\ IsSeq(z) /\ Len(y) = 1 /\ Len(z) = 1 /\ y[1] = a /\ z[1] = Newline
  <2>1. y \in Seq({a}) /\ z \in Seq({Newline})
    OBVIOUS
  <2> QED
    BY <2>1, SeqIs
<1> HIDE DEF data
<1>3. Joined(y, data, b)
  BY <1>1, <1>2, ConcatIsSeq
<1>4. s = b \o z /\ LineText(a, n, f) = s
  BY DEF LineText, data
<1>5. IsSeq(b)
  BY <1>3 DEF Joined
<1> HIDE DEF b, s, y, z
<1>6. Joined(b, z, s)
  <2>1. Joined(b, z, b \o z)
    BY <1>2, <1>5, ConcatIsSeq, Zenon
  <2> QED
    BY <1>4, <2>1, Zenon
<1>7. IsSeq(s) /\ Len(s) = n + 2 /\ Len(b) = n + 1
  BY <1>1, <1>2, <1>3, <1>6 DEF Joined
<1>8. s[1] = a /\ s[n + 2] = Newline
  <2>1. b[1] = y[1] /\ 1 \in 1..(n + 1) /\ (n + 1) + 1 = n + 2
    BY <1>1, <1>2, <1>3 DEF Joined
  <2>2. s[1] = b[1] /\ s[(n + 1) + 1] = z[1]
    BY <1>2, <1>6, <1>7, <2>1 DEF Joined
  <2> QED
    BY <1>2, <2>1, <2>2
<1>9. ASSUME NEW k \in 1..n PROVE s[k + 1] = f[k]
  <2>1. k + 1 \in 1..(n + 1) /\ k + 1 = 1 + k
    OBVIOUS
  <2>2. b[1 + k] = data[k]
    BY <1>1, <1>2, <1>3 DEF Joined
  <2>3. s[k + 1] = b[k + 1]
    BY <1>6, <1>7, <2>1 DEF Joined
  <2> QED
    BY <1>1, <2>1, <2>2, <2>3
<1> QED
  BY <1>4, <1>7, <1>8, <1>9

LEMMA NewLineIs ==
  ASSUME WriteInv, NewLine
  PROVE  LET n == Smaller(LineData, nleft \div Unit)
             data == [k \in 1..n |-> Datum(U32(ptr + (k - 1) * Unit))]
         IN /\ n \in Nat /\ nleft' \in Int /\ IsSeq(line_buf') /\ Len(line_buf') = n + 2
            /\ line_buf'[1] = Label(u32) /\ line_buf'[n + 2] = Newline
            /\ \A k \in 1..n : line_buf'[k + 1] = data[k]
<1> DEFINE n == Smaller(LineData, nleft \div Unit)
           data == [k \in 1..n |-> Datum(U32(ptr + (k - 1) * Unit))]
<1>1. /\ nleft \in Int /\ nleft > 0 /\ Unit \in {1, 4} /\ LineData \in Nat
      /\ nleft' = nleft - n * Unit
      /\ line_buf' = <<Label(u32)>> \o data \o <<Newline>>
  BY ReadAssumption DEF WriteInv, AsciiText, NewLine, Looping, Unit, UnitOf, WordSize, ReadAssumption
<1>2. n \in Nat /\ nleft - n * Unit \in Int
  BY <1>1 DEF Smaller
<1>3. data = [k \in 1..n |-> data[k]]
  OBVIOUS
<1> HIDE DEF data, n
<1>4. line_buf' = LineText(Label(u32), n, data)
  BY <1>1, <1>3 DEF LineText
<1>5. LET s == LineText(Label(u32), n, data)
      IN /\ IsSeq(s) /\ Len(s) = n + 2 /\ s[1] = Label(u32) /\ s[n + 2] = Newline
         /\ \A k \in 1..n : s[k + 1] = data[k]
  BY <1>2, LineTextIs
<1> QED
  BY <1>1, <1>2, <1>4, <1>5 DEF n, data

LEMMA WriteReadStep ==
  ASSUME TapInv, WriteInv, ReadStep, UNCHANGED wvars
  PROVE  WriteInv'
<1>0. /\ UNCHANGED <<line, stored>> /\ IsSeq(line_buf) /\ nleft \in Int
  BY DEF wvars, WriteInv, AsciiText
<1>1. CASE MemByte \/ FpgaByte
  <2>1. /\ status = "open" /\ handler # "write_ascii" /\ UNCHANGED <<status, handler, req, line_buf>>
        /\ nleft' = nleft - 1
    BY <1>1 DEF MemByte, FpgaByte, Looping, request, statics
  <2> QED
    BY <1>0, <2>1, WriteIdle
<1>2. CASE NewLine
  <2>1. status = "open" /\ handler # "write_ascii" /\ UNCHANGED <<status, handler, req>>
    BY <1>2 DEF NewLine, Looping, request, Ascii
  <2>2. nleft' \in Int /\ IsSeq(line_buf')
    BY <1>2, NewLineIs
  <2> QED
    BY <1>0, <2>1, <2>2, WriteIdle
<1>3. CASE SameLine \/ Copy \/ MemoryChanges
  <2>1. handler \in Binary \cup Ascii /\ UNCHANGED <<status, handler, req, line_buf, nleft>>
    BY <1>3 DEF SameLine, Copy, MemoryChanges, request, tapcp_state, statics, TapInv, Counters
  <2>2. status = "open" /\ handler # "write_ascii"
    BY <2>1 DEF TapInv, Granted, Binary, Ascii
  <2> QED
    BY <1>0, <2>1, <2>2, WriteIdle
<1>4. CASE Return
  <2>1. /\ status = "open" /\ handler # "write_ascii" /\ UNCHANGED <<req, line_buf>>
        /\ \/ UNCHANGED <<status, handler, nleft>>
           \/ status' = "done" /\ nleft' = 0
    BY <1>4 DEF Return, Close, statics, Binary, Ascii
  <2>2. nleft' \in Int
    BY <1>0, <2>1
  <2> QED
    BY <1>0, <2>1, <2>2, WriteIdle
<1> QED
  BY <1>1, <1>2, <1>3, <1>4 DEF ReadStep

LEMMA WriteInvStep ==
  ASSUME TapInv, WriteInv, [Next]_vars
  PROVE  WriteInv'
<1>0. IsSeq(line_buf) /\ nleft \in Int
  BY DEF WriteInv, AsciiText
<1>1. CASE OpenAny
  BY <1>1, WriteOpen
<1>2. CASE Forget
  <2> DEFINE b == [i \in 1..Len(line_buf) |->
       IF "kind" \in DOMAIN line_buf[i] THEN [line_buf[i] EXCEPT !.id = 0] ELSE line_buf[i]]
  <2>1. status' = "idle" /\ line' = <<>> /\ line_buf' = b /\ nleft' = nleft
    BY <1>2 DEF Forget, tapcp_state
  <2>2. b = [i \in 1..Len(line_buf) |-> b[i]] /\ Len(line_buf) \in Nat
    BY <1>0 DEF IsSeq
  <2> HIDE DEF b
  <2>3. IsSeq(b)
    BY <2>2, FunctionIsSeq
  <2> QED
    BY <1>0, <2>1, <2>3, EmptyIsSeq DEF WriteInv, AsciiText, AsciiWriter, AsciiStored, Uploading
<1>3. CASE ReadStep /\ UNCHANGED wvars
  BY <1>3, WriteReadStep
<1>4. CASE WriteByte
  <2>1. /\ status = "open" /\ handler = "write_binary"
        /\ UNCHANGED <<status, handler, req, line_buf, line>>
        /\ nleft' = IF nleft > 0 THEN nleft - 1 ELSE nleft
    BY <1>4 DEF WriteByte, Writing, request, statics
  <2>2. nleft' \in Int
    BY <1>0, <2>1
  <2>3. req.binary
    BY <2>1, SessionIs DEF TapInv
  <2> QED
    BY <1>0, <2>1, <2>2, <2>3 DEF WriteInv, AsciiText, AsciiWriter, AsciiStored
<1>5. CASE WriteByteFull
  <2>1. /\ status = "open" /\ handler = "write_binary" /\ status' = "failed" /\ nleft' = 0
        /\ UNCHANGED <<req, line_buf, line, stored>>
    BY <1>5 DEF WriteByteFull, Writing, Fail, Close, statics, wvars
  <2> QED
    BY <1>0, <2>1, WriteIdle
<1>6. CASE WriteChar
  BY <1>6, WriteCharStep
<1>7. CASE NextBlock
  <2>1. /\ status = "open" /\ plb' = lidx
        /\ UNCHANGED <<status, handler, req, ptr, nleft, lidx, line_buf, line, stored>>
    BY <1>7 DEF NextBlock, request, tapcp_state, statics
  <2>2. AsciiText'
    <3>1. Len(line_buf) \in Nat
      BY <1>0 DEF IsSeq
    <3> QED
      BY <2>1, <3>1 DEF WriteInv, AsciiText
  <2> QED
    BY <2>1, <2>2 DEF WriteInv, AsciiWriter, AsciiStored, Uploading, Total
<1>8. CASE EndUpload \/ GoneAway
  <2>1. /\ status = "open" /\ status' \in {"done", "lost"} /\ nleft' = 0
        /\ UNCHANGED <<req, line_buf, line, stored>>
    BY <1>8 DEF EndUpload, GoneAway, Abandon, Close, statics, wvars
  <2> QED
    BY <1>0, <2>1, WriteIdle
<1>9. CASE UNCHANGED vars
  <2>1. UNCHANGED <<status, handler, req, ptr, nleft, lidx, line_buf, plb, line, stored>>
    BY <1>9 DEF vars, rvars, wvars, request, tapcp_state, statics
  <2> QED
    BY <2>1 DEF WriteInv, AsciiText, AsciiWriter, AsciiStored, Uploading, Total
<1> QED
  BY <1>1, <1>2, <1>3, <1>4, <1>5, <1>6, <1>7, <1>8, <1>9 DEF Next

LEMMA WriteInvHolds == Spec => []WriteInv
<1>1. Init => WriteInv
  BY EmptyIsSeq
  DEF Init, ReadInit, WriteInv, AsciiText, AsciiWriter, AsciiStored, Uploading
<1>2. TapInv /\ WriteInv /\ [Next]_vars => WriteInv'
  BY WriteInvStep
<1> QED
  BY <1>1, <1>2, TapInvHolds, PTL DEF Spec

(***************************************************************************)
(* The lines of a dump, one after the other.                               *)
(***************************************************************************)
FlatStep(ls, f, i) == IF i = 1 THEN ls[i] ELSE f[i - 1] \o ls[i]
Flattens(ls, f) == f = [i \in 1..Len(ls) |-> FlatStep(ls, f, i)]
Flats(ls) == CHOOSE f : Flattens(ls, f)

\* Where line i ends.
Base(ls, i) == IF i = 0 THEN 0 ELSE Len(Flats(ls)[i])

LEMMA FlattenIs ==
  ASSUME NEW ls
  PROVE  FlattenSeq(ls) = IF Len(ls) = 0 THEN ls ELSE Flats(ls)[Len(ls)]
  BY DEF FlattenSeq, Flats, Flattens, FlatStep

LEMMA FlattenExists ==
  ASSUME NEW ls, Len(ls) \in Nat
  PROVE  Flattens(ls, Flats(ls))
<1> DEFINE n == Len(ls)
           Upto(f, j) == \A i \in 1..j : f[i] = FlatStep(ls, f, i)
           IsF(f) == f = [i \in 1..n |-> f[i]]
           T == {j \in 0..n : ~\E f : IsF(f) /\ Upto(f, j)}
<1>1. 0 \notin T
  <2> DEFINE D == [i \in 1..n |-> 0]
  <2>1. IsF(D) /\ Upto(D, 0)
    OBVIOUS
  <2> HIDE DEF D, IsF, Upto
  <2> QED
    BY <2>1
<1>2. ASSUME NEW j \in 0..n, j # 0, j - 1 \notin T PROVE j \notin T
  <2>1. j - 1 \in 0..n
    BY <1>2
  <2>2. PICK f : IsF(f) /\ Upto(f, j - 1)
    BY <1>2, <2>1
  <2> DEFINE g == [i \in 1..n |-> IF i = j THEN FlatStep(ls, f, j) ELSE f[i]]
  <2>3. IsF(g)
    OBVIOUS
  <2>4. (\A i \in 1..(j - 1) : g[i] = f[i]) /\ g[j] = FlatStep(ls, f, j)
    BY <1>2
  <2> HIDE DEF g
  <2>5. ASSUME NEW i \in 1..j PROVE g[i] = FlatStep(ls, g, i)
    <3>1. i # 1 => f[i - 1] = g[i - 1]
      BY <1>2, <2>4
    <3>2. FlatStep(ls, f, i) = FlatStep(ls, g, i)
      BY <3>1 DEF FlatStep
    <3>3. CASE i = j
      BY <2>4, <3>2, <3>3
    <3>4. CASE i # j
      <4>1. i \in 1..(j - 1)
        BY <1>2, <3>4
      <4> QED
        BY <2>2, <2>4, <3>2, <4>1
    <3> QED
      BY <3>3, <3>4
  <2>6. Upto(g, j)
    BY <2>5
  <2> HIDE DEF IsF, Upto
  <2> QED
    BY <2>3, <2>6
<1>3. T = {}
  <2> SUFFICES ASSUME T # {} PROVE FALSE
    OBVIOUS
  <2>1. T \subseteq 0..n /\ T \subseteq Nat
    OBVIOUS
  <2> HIDE DEF T
  <2>2. PICK j \in T : \A y \in T : j <= y
    BY <2>1, Least
  <2>3. j \in 0..n /\ j # 0
    BY <1>1, <2>1
  <2>4. j - 1 \notin T
    BY <2>2, <2>3
  <2> QED
    BY <1>2, <2>3, <2>4
<1>4. n \in 0..n
  OBVIOUS
<1>5. PICK f : IsF(f) /\ Upto(f, n)
  <2> HIDE DEF IsF, Upto
  <2> QED
    BY <1>3, <1>4
<1>6. [i \in 1..n |-> f[i]] = [i \in 1..n |-> FlatStep(ls, f, i)]
  BY <1>5
<1>7. Flattens(ls, f)
  BY <1>5, <1>6 DEF Flattens
<1> QED
  BY <1>7 DEF Flats

\* Up to line k: what comes from the lines is where they end.
LaidOut(ls, k) ==
  /\ k > 0 => IsSeq(Flats(ls)[k])
  /\ \A i \in 0..k : Base(ls, i) \in Nat /\ Base(ls, i) <= Base(ls, k)
  /\ \A i \in 1..k : Base(ls, i) = Base(ls, i - 1) + Len(ls[i])
  /\ \A i \in 1..k : \A j \in 1..Len(ls[i]) :
       /\ Base(ls, i - 1) + j \in 1..Base(ls, k)
       /\ Flats(ls)[k][Base(ls, i - 1) + j] = ls[i][j]

LEMMA LaidOutNext ==
  ASSUME NEW ls, Len(ls) \in Nat, NEW k \in 1..Len(ls), IsSeq(ls[k]), LaidOut(ls, k - 1)
  PROVE  LaidOut(ls, k)
<1> DEFINE F == Flats(ls)
           B(i) == Base(ls, i)
<1>1. F[k] = IF k = 1 THEN ls[k] ELSE F[k - 1] \o ls[k]
  <2>1. Flattens(ls, F)
    BY FlattenExists
  <2> HIDE DEF F
  <2>2. F = [i \in 1..Len(ls) |-> FlatStep(ls, F, i)]
    BY <2>1, Zenon DEF Flattens
  <2>3. F[k] = FlatStep(ls, F, k)
    BY <2>2, Zenon
  <2> QED
    BY <2>3 DEF FlatStep
<1>2. B(k) = Len(F[k]) /\ B(0) = 0 /\ (k # 1 => B(k - 1) = Len(F[k - 1]))
  BY DEF Base
<1>3. /\ k - 1 > 0 => IsSeq(F[k - 1])
      /\ B(k - 1) \in Nat
      /\ \A i \in 0..(k - 1) : B(i) \in Nat /\ B(i) <= B(k - 1)
      /\ \A i \in 1..(k - 1) : B(i) = B(i - 1) + Len(ls[i])
      /\ \A i \in 1..(k - 1) : \A j \in 1..Len(ls[i]) :
           B(i - 1) + j \in 1..B(k - 1) /\ F[k - 1][B(i - 1) + j] = ls[i][j]
  BY DEF LaidOut
<1>4. Len(ls[k]) \in Nat
  BY DEF IsSeq
<1> HIDE DEF F, B
<1>5. /\ IsSeq(F[k]) /\ B(k) = B(k - 1) + Len(ls[k])
      /\ \A j \in 1..B(k - 1) : k # 1 => F[k][j] = F[k - 1][j]
      /\ \A j \in 1..Len(ls[k]) : F[k][B(k - 1) + j] = ls[k][j]
  <2>1. CASE k = 1
    <3>1. F[k] = ls[k] /\ B(k - 1) = 0
      BY <1>1, <1>2, <2>1
    <3> QED
      BY <1>2, <1>4, <2>1, <3>1
  <2>2. CASE k # 1
    <3>1. IsSeq(F[k - 1])
      BY <1>3, <2>2
    <3>2. Joined(F[k - 1], ls[k], F[k - 1] \o ls[k])
      BY <3>1, ConcatIsSeq, Zenon
    <3>3. Joined(F[k - 1], ls[k], F[k])
      BY <1>1, <2>2, <3>2, Zenon
    <3> QED
      BY <1>2, <2>2, <3>3 DEF Joined
  <2> QED
    BY <2>1, <2>2
<1>6. B(k) \in Nat /\ B(k - 1) <= B(k)
  BY <1>3, <1>4, <1>5
<1>7. ASSUME NEW i \in 0..k PROVE B(i) \in Nat /\ B(i) <= B(k)
  <2>1. CASE i = k
    BY <1>6, <2>1
  <2>2. CASE i # k
    <3>1. i \in 0..(k - 1)
      BY <2>2
    <3> QED
      BY <1>3, <1>6, <3>1
  <2> QED
    BY <2>1, <2>2
<1>9. ASSUME NEW i \in 1..k PROVE B(i) = B(i - 1) + Len(ls[i])
  <2>1. CASE i = k
    BY <1>5, <2>1
  <2>2. CASE i # k
    <3>1. i \in 1..(k - 1)
      BY <2>2
    <3> QED
      BY <1>3, <3>1
  <2> QED
    BY <2>1, <2>2
<1>8. ASSUME NEW i \in 1..k, NEW j \in 1..Len(ls[i])
      PROVE  B(i - 1) + j \in 1..B(k) /\ F[k][B(i - 1) + j] = ls[i][j]
  <2>1. CASE i = k
    BY <1>3, <1>4, <1>5, <2>1
  <2>2. CASE i # k
    <3>1. i \in 1..(k - 1) /\ k # 1
      BY <2>2
    <3>2. B(i - 1) + j \in 1..B(k - 1) /\ F[k - 1][B(i - 1) + j] = ls[i][j]
      BY <1>3, <3>1
    <3> DEFINE x == B(i - 1) + j
    <3>3. x \in 1..B(k - 1) /\ F[k - 1][x] = ls[i][j]
      BY <3>2
    <3> HIDE DEF x
    <3>4. F[k][x] = ls[i][j]
      BY <1>5, <3>1, <3>3
    <3>5. x \in 1..B(k)
      BY <1>3, <1>6, <3>3
    <3> QED
      BY <3>4, <3>5 DEF x
  <2> QED
    BY <2>1, <2>2
<1> QED
  BY <1>5, <1>7, <1>8, <1>9 DEF LaidOut, F, B

LEMMA LaidOutAll ==
  ASSUME NEW ls, Len(ls) \in Nat, \A i \in 1..Len(ls) : IsSeq(ls[i])
  PROVE  LaidOut(ls, Len(ls))
<1> DEFINE n == Len(ls)
           T == {k \in 0..n : ~LaidOut(ls, k)}
<1>1. LaidOut(ls, 0)
  BY DEF LaidOut, Base
<1>2. T = {}
  <2> SUFFICES ASSUME T # {} PROVE FALSE
    OBVIOUS
  <2>1. T \subseteq 0..n /\ T \subseteq Nat
    OBVIOUS
  <2>2. PICK k \in T : \A y \in T : k <= y
    <3> HIDE DEF T
    <3> QED
      BY <2>1, Least
  <2>3. k \in 0..n /\ ~LaidOut(ls, k) /\ k # 0
    BY <1>1
  <2>4. k - 1 \notin T
    <3> HIDE DEF T
    <3> QED
      BY <2>2, <2>3
  <2>5. LaidOut(ls, k - 1) /\ k \in 1..n
    BY <2>3, <2>4
  <2> HIDE DEF T
  <2> QED
    BY <2>3, <2>5, LaidOutNext
<1>3. n \in 0..n
  OBVIOUS
<1> QED
  BY <1>2, <1>3

\* Where the characters of line i are in the whole.
LEMMA FlattenLines ==
  ASSUME NEW ls, IsSeq(ls), \A i \in 1..Len(ls) : IsSeq(ls[i])
  PROVE  /\ Base(ls, 0) = 0
         /\ \A i \in 0..Len(ls) : Base(ls, i) \in Nat /\ Base(ls, i) <= Len(FlattenSeq(ls))
         /\ \A i \in 1..Len(ls) :
              /\ Base(ls, i) = Base(ls, i - 1) + Len(ls[i])
              /\ \A j \in 1..Len(ls[i]) : FlattenSeq(ls)[Base(ls, i - 1) + j] = ls[i][j]
         /\ IsSeq(FlattenSeq(ls))
<1>1. Len(ls) \in Nat
  BY DEF IsSeq
<1>2. LaidOut(ls, Len(ls)) /\ Base(ls, 0) = 0
  BY <1>1, LaidOutAll DEF Base
<1>3. CASE Len(ls) = 0
  <2>1. FlattenSeq(ls) = ls
    BY <1>3, FlattenIs
  <2> QED
    BY <1>2, <1>3, <2>1
<1>4. CASE Len(ls) # 0
  <2>1. FlattenSeq(ls) = Flats(ls)[Len(ls)] /\ Base(ls, Len(ls)) = Len(FlattenSeq(ls))
    BY <1>4, FlattenIs DEF Base
  <2> QED
    BY <1>1, <1>2, <1>4, <2>1 DEF LaidOut
<1> QED
  BY <1>3, <1>4

(***************************************************************************)
(* The ASCII readers.                                                      *)
(***************************************************************************)
\* The bytes of a datum, the data asked for, the lines they make, and line l of
\* the dump.
DatumSize == UnitOf(Handler(req))
DataCount == Extent(req) \div DatumSize
LineCount == (DataCount + LineData - 1) \div LineData
OnLine(l) == Smaller(LineData, DataCount - (l - 1) * LineData)
DumpLine(l) ==
  <<Label((l - 1) * 16)>>
    \o [k \in 1..OnLine(l) |->
          <<transfer, Start(req) + ((l - 1) * LineData + k - 1) * DatumSize>>]
    \o <<Newline>>
DumpLines == [l \in 1..LineCount |-> DumpLine(l)]

LEMMA DumpIs ==
  ASSUME Handler(req) \in Ascii
  PROVE  Dump = FlattenSeq(DumpLines)
<1>1. Handler(req) \notin Binary
  BY DEF Ascii, Binary
<1> QED
  BY <1>1 DEF Dump, AsciiDump, DumpLines, DumpLine, LineCount, OnLine, DataCount, DatumSize

LEMMA Grows ==
  ASSUME NEW a \in Int, NEW b \in Int, NEW d \in Nat, a <= b
  PROVE  a * d <= b * d
  OBVIOUS

\* The lines needed for n data.
LEMMA RoundedUp ==
  ASSUME NEW n \in Nat, NEW d \in Nat, d > 0
  PROVE  LET q == (n + d - 1) \div d
         IN q \in Nat /\ \A m \in Nat : m * d < n <=> m < q
<1> DEFINE q == (n + d - 1) \div d
<1>1. q \in Int /\ q * d <= n + d - 1 /\ n + d - 1 < (q + 1) * d
  OBVIOUS
<1>2. (q + 1) * d = q * d + d /\ q * d \in Int
  BY <1>1
<1> HIDE DEF q
<1>3. q \in Nat
  <2> SUFFICES ASSUME q <= -1 PROVE FALSE
    BY <1>1
  <2>1. (q + 1) * d <= 0 * d
    BY <1>1, Grows
  <2>2. 0 * d = 0
    OBVIOUS
  <2> QED
    BY <1>1, <1>2, <2>1, <2>2
<1>4. ASSUME NEW m \in Nat PROVE m * d < n <=> m < q
  <2>1. m * d \in Int /\ (m + 1) * d = m * d + d
    OBVIOUS
  <2>2. ASSUME m < q PROVE m * d < n
    <3>1. (m + 1) * d <= q * d
      BY <1>1, <2>2, Grows
    <3> QED
      BY <1>1, <1>2, <2>1, <3>1
  <2>3. ASSUME q <= m PROVE ~(m * d < n)
    <3>1. q * d <= m * d
      BY <1>1, <2>3, Grows
    <3> QED
      BY <1>1, <1>2, <2>1, <3>1
  <2> QED
    BY <1>1, <2>2, <2>3
<1> QED
  BY <1>3, <1>4 DEF q

LEMMA DumpLineIs ==
  ASSUME DataCount \in Nat, NEW l \in 1..LineCount
  PROVE  /\ OnLine(l) \in Nat /\ IsSeq(DumpLine(l)) /\ Len(DumpLine(l)) = OnLine(l) + 2
         /\ DumpLine(l)[1] = Label((l - 1) * 16) /\ DumpLine(l)[OnLine(l) + 2] = Newline
         /\ \A k \in 1..OnLine(l) : DumpLine(l)[k + 1] =
              <<transfer, Start(req) + ((l - 1) * LineData + k - 1) * DatumSize>>
<1> DEFINE n == OnLine(l)
           f == [k \in 1..n |->
                   <<transfer, Start(req) + ((l - 1) * LineData + k - 1) * DatumSize>>]
<1>1. LineData \in Nat /\ LineData > 0
  BY ReadAssumption DEF ReadAssumption
<1>2. LineCount \in Nat /\ \A m \in Nat : m * LineData < DataCount <=> m < LineCount
  BY <1>1, RoundedUp DEF LineCount
<1>3. l - 1 \in Nat /\ l - 1 < LineCount
  BY <1>2
<1>4. (l - 1) * LineData < DataCount
  BY <1>2, <1>3
<1>5. n \in Nat
  <2>1. (l - 1) * LineData \in Nat
    BY <1>1, <1>3
  <2> QED
    BY <1>1, <1>4, <2>1 DEF OnLine, Smaller
<1>6. DumpLine(l) = LineText(Label((l - 1) * 16), n, f)
  BY DEF DumpLine, LineText
<1>7. \A k \in 1..n : f[k] =
        <<transfer, Start(req) + ((l - 1) * LineData + k - 1) * DatumSize>>
  OBVIOUS
<1> HIDE DEF n, f
<1>8. LET s == LineText(Label((l - 1) * 16), n, f)
      IN /\ IsSeq(s) /\ Len(s) = n + 2 /\ s[1] = Label((l - 1) * 16) /\ s[n + 2] = Newline
         /\ \A k \in 1..n : s[k + 1] = f[k]
  BY <1>5, LineTextIs
<1>9. /\ IsSeq(DumpLine(l)) /\ Len(DumpLine(l)) = n + 2
      /\ DumpLine(l)[1] = Label((l - 1) * 16) /\ DumpLine(l)[n + 2] = Newline
      /\ \A k \in 1..n : DumpLine(l)[k + 1] = f[k]
  BY <1>6, <1>8
<1> QED
  BY <1>5, <1>7, <1>9 DEF n

\* Where line i of the dump ends.
LineEnd(i) == Base(DumpLines, i)

DumpLaidOut ==
  /\ LineCount \in Nat /\ LineEnd(0) = 0 /\ IsSeq(Dump)
  /\ \A m \in Nat : m * LineData < DataCount <=> m < LineCount
  /\ \A i \in 0..LineCount : LineEnd(i) \in Nat /\ LineEnd(i) <= Len(Dump)
  /\ \A i \in 1..LineCount :
       /\ LineEnd(i) = LineEnd(i - 1) + Len(DumpLine(i))
       /\ \A j \in 1..Len(DumpLine(i)) : Dump[LineEnd(i - 1) + j] = DumpLine(i)[j]

LEMMA DumpIsLaidOut ==
  ASSUME DataCount \in Nat, Handler(req) \in Ascii
  PROVE  DumpLaidOut
<1> DEFINE ls == DumpLines
<1>1. LineCount \in Nat /\ \A m \in Nat : m * LineData < DataCount <=> m < LineCount
  <2>1. LineData \in Nat /\ LineData > 0
    BY ReadAssumption DEF ReadAssumption
  <2> QED
    BY <2>1, RoundedUp DEF LineCount
<1>2. ls = [l \in 1..LineCount |-> ls[l]] /\ \A l \in 1..LineCount : ls[l] = DumpLine(l)
  BY DEF DumpLines
<1> HIDE DEF ls
<1>3. IsSeq(ls) /\ Len(ls) = LineCount
  <2> DEFINE n == LineCount
  <2>1. n \in Nat /\ ls = [l \in 1..n |-> ls[l]]
    BY <1>1, <1>2
  <2> HIDE DEF n
  <2>2. IsSeq(ls) /\ Len(ls) = n
    BY <2>1, FunctionIsSeq
  <2> QED
    BY <2>2 DEF n
<1>4. \A l \in 1..Len(ls) : IsSeq(ls[l])
  BY <1>2, <1>3, DumpLineIs
<1>5. /\ Base(ls, 0) = 0
      /\ \A i \in 0..Len(ls) : Base(ls, i) \in Nat /\ Base(ls, i) <= Len(FlattenSeq(ls))
      /\ \A i \in 1..Len(ls) :
           /\ Base(ls, i) = Base(ls, i - 1) + Len(ls[i])
           /\ \A j \in 1..Len(ls[i]) : FlattenSeq(ls)[Base(ls, i - 1) + j] = ls[i][j]
      /\ IsSeq(FlattenSeq(ls))
  BY <1>3, <1>4, FlattenLines
<1>6. Dump = FlattenSeq(ls)
  BY DumpIs DEF ls
<1>7. \A i : LineEnd(i) = Base(ls, i)
  BY DEF LineEnd, ls
<1>8. ASSUME NEW i \in 1..LineCount
      PROVE  /\ LineEnd(i) = LineEnd(i - 1) + Len(DumpLine(i))
             /\ \A j \in 1..Len(DumpLine(i)) : Dump[LineEnd(i - 1) + j] = DumpLine(i)[j]
  <2>1. i \in 1..Len(ls) /\ ls[i] = DumpLine(i)
    BY <1>2, <1>3
  <2>2. LineEnd(i) = Base(ls, i) /\ LineEnd(i - 1) = Base(ls, i - 1)
    BY <1>7
  <2> QED
    BY <1>5, <1>6, <2>1, <2>2
<1>9. \A i \in 0..LineCount : LineEnd(i) \in Nat /\ LineEnd(i) <= Len(Dump)
  BY <1>3, <1>5, <1>6, <1>7
<1>10. LineEnd(0) = 0 /\ IsSeq(Dump)
  BY <1>5, <1>6, <1>7
<1> QED
  BY <1>1, <1>8, <1>9, <1>10 DEF DumpLaidOut

\* A datum comes from the memory granted, and it is no byte of a binary read.
InPlace(c) ==
  /\ "of" \notin DOMAIN c
  /\ "at" \in DOMAIN c => c.at \in Start(req)..(Start(req) + Total - 1)

\* line_buf holds line m of the dump, and a newline only at its end.
HoldsLine(m) ==
  /\ Len(line_buf) = Len(DumpLine(m))
  /\ \A j \in 1..Len(line_buf) :
       /\ Plain(line_buf[j]) = DumpLine(m)[j] /\ InPlace(line_buf[j])
       /\ line_buf[j] = Newline <=> j = Len(line_buf)

\* The pointer p is at datum i of those from S on, each of u bytes.
AtDatum(S, u, p, i) ==
  p \in Nat /\ p < AddrMod /\ (IF u = 1 THEN p ELSE AlignDown(p)) = S + u * i

\* m lines are made: the place in memory, and the place in the text.
MadeLines(m) ==
  /\ u32 = 16 * m
  /\ nleft > 0 =>
       /\ Total > 0 /\ nleft = DatumSize * (DataCount - m * LineData)
       /\ AtDatum(Start(req), DatumSize, ptr, m * LineData)

InLine(m) ==
  IF pc = "loop" /\ lidx = 0 THEN Len(sent) = LineEnd(m)
  ELSE m > 0 /\ Len(sent) = LineEnd(m - 1) + lidx /\ lidx < Len(line_buf) /\ HoldsLine(m)

AsciiReader ==
  status = "open" /\ handler \in Ascii /\ Sensible(req) =>
    lidx \in Nat /\ \E m \in 0..LineCount : MadeLines(m) /\ InLine(m)

\* An ASCII read has returned a beginning of the dump.
AsciiSent ==
  Reading /\ Handler(req) \in Ascii =>
    /\ IsSeq(sent) /\ (sent = <<>> \/ Len(sent) <= Len(Dump))
    /\ \A k \in 1..Len(sent) : Plain(sent[k]) = Dump[k] /\ InPlace(sent[k])

ReadInv == AsciiReader /\ AsciiSent

\* k data further on, among D data.
LEMMA DatumAt ==
  ASSUME NEW S \in Nat, NEW P \in Nat, NEW D \in Nat, NEW u \in {1, 4}, S + u * D <= AddrMod,
         NEW p, AtDatum(S, u, p, P), NEW k \in Nat, P + k < D
  PROVE  /\ AtDatum(S, u, U32(p + k * u), P + k)
         /\ S + u * (P + k) \in S..(S + u * D - 1)
<1>0. p \in Nat /\ p < AddrMod /\ (IF u = 1 THEN p ELSE AlignDown(p)) = S + u * P
  BY DEF AtDatum
<1>1. CASE u = 1
  <2>0. p = S + P /\ S + D <= AddrMod /\ k * u = k
    BY <1>0, <1>1
  <2>1. p + k * u = S + P + k /\ p + k * u < AddrMod /\ p + k * u \in Nat
    BY <1>0, <2>0, Modulus
  <2>2. U32(p + k * u) = p + k * u
    BY <2>1, Exact
  <2> QED
    BY <1>1, <2>1, <2>2 DEF AtDatum
<1>2. CASE u = 4
  <2> DEFINE a == AlignDown(p)
  <2>0. a = S + 4 * P /\ S + 4 * D <= AddrMod
    BY <1>0, <1>2
  <2>1. a \in Nat /\ a <= p /\ p <= a + 3 /\ a % 4 = 0 /\ a = S + 4 * P /\ S + 4 * D <= AddrMod
    BY <1>0, <2>0, Aligned
  <2> HIDE DEF a
  <2>2. p + 4 * k <= a + 4 * k + 3 /\ a + 4 * k + 4 <= AddrMod /\ p + 4 * k \in Nat
    BY <1>0, <2>1, Modulus
  <2>3. U32(p + 4 * k) = p + 4 * k /\ p + 4 * k < AddrMod
    BY <1>0, <2>1, <2>2, Exact, Modulus
  <2>4. AlignDown(p + 4 * k) = a + 4 * k
    BY <1>0, <2>1, <2>2 DEF AlignDown, WordSize
  <2>5. a + 4 * k = S + 4 * (P + k) /\ S + 4 * (P + k) \in S..(S + 4 * D - 1)
    BY <2>1
  <2> QED
    BY <1>2, <2>2, <2>3, <2>4, <2>5 DEF AtDatum
<1> QED
  BY <1>1, <1>2

LEMMA CharIs ==
  /\ \A n : Plain(Label(n)) = Label(n) /\ InPlace(Label(n)) /\ Label(n) # Newline
  /\ Plain(Newline) = Newline /\ InPlace(Newline)
  /\ \A a : /\ Plain(Read(a)) = <<transfer, a>> /\ Read(a) # Newline
            /\ a \in Start(req)..(Start(req) + Total - 1) => InPlace(Read(a))
<1>1. ASSUME NEW n PROVE DOMAIN Label(n) = {"label"}
  BY DEF Label
<1>2. DOMAIN Newline = {"newline"}
  BY DEF Newline
<1>3. ASSUME NEW a
      PROVE  DOMAIN Read(a) = {"transfer", "at", "version"} /\ Read(a).at = a
             /\ Read(a).transfer = transfer
  BY DEF Read
<1> QED
  BY <1>1, <1>2, <1>3 DEF Plain, InPlace

\* What is known of an ASCII read.
LEMMA AsciiReadingIs ==
  ASSUME TapInv, Sensible(req), ~req.write, Handler(req) \in Ascii,
         status \in {"open", "done"}
  PROVE  /\ Start(req) \in Nat /\ Total \in Int /\ DatumSize \in {1, 4} /\ DataCount \in Nat
         /\ Start(req) + DatumSize * DataCount <= AddrMod
         /\ Total >= 0 => Total = DatumSize * DataCount
         /\ Start(req)..(Start(req) + Total - 1) \subseteq Region(req)
         /\ DumpLaidOut
<1>1. req \in Requests /\ OpenRequest(req).ok
  BY DEF TapInv, Granted
<1>2. OpensRead(req)
  BY <1>1, OpensToRead
<1>3. CASE Handler(req) = "mem_bytes_ascii"
  <2>1. DatumSize = 1 /\ DataCount = Extent(req)
    BY <1>2, <1>3 DEF DatumSize, UnitOf, DataCount, OpensRead
  <2> QED
    BY <1>2, <1>3, <2>1, DumpIsLaidOut DEF OpensRead, Total
<1>4. CASE Handler(req) = "fpga_words_ascii"
  <2>1. DatumSize = 4 /\ DataCount = Extent(req) \div 4
    BY <1>4 DEF DatumSize, UnitOf, DataCount, WordSize
  <2>2. Extent(req) \in Nat
    BY <1>2 DEF OpensRead
  <2>3. DataCount \in Nat /\ 4 * DataCount <= Extent(req)
    BY <2>1, <2>2
  <2>4. DumpLaidOut
    BY <2>3, DumpIsLaidOut
  <2>5. /\ Start(req) \in Nat /\ Total \in Int /\ Start(req) + Extent(req) <= AddrMod
        /\ Total = 4 * DataCount /\ Start(req)..(Start(req) + Total - 1) \subseteq Region(req)
    BY <1>2, <1>4, <2>1 DEF OpensRead, Total
  <2>6. Start(req) + 4 * DataCount <= AddrMod
    BY <2>2, <2>3, <2>5, Modulus
  <2> QED
    BY <2>1, <2>3, <2>4, <2>5, <2>6
<1> QED
  BY <1>3, <1>4 DEF Ascii

LEMMA ReadKept ==
  ASSUME UNCHANGED <<req, transfer>>
  PROVE  /\ DatumSize' = DatumSize /\ DataCount' = DataCount /\ LineCount' = LineCount
         /\ \A l : DumpLine(l)' = DumpLine(l)
         /\ DumpLines' = DumpLines /\ Dump' = Dump /\ Total' = Total
         /\ \A i : LineEnd(i)' = LineEnd(i)
         /\ \A c : InPlace(c)' <=> InPlace(c)
<1>1. DatumSize' = DatumSize /\ DataCount' = DataCount /\ LineCount' = LineCount /\ Total' = Total
  BY DEF DatumSize, DataCount, LineCount, Total
<1>2. \A l : DumpLine(l)' = DumpLine(l)
  BY <1>1 DEF DumpLine, OnLine
<1>3. DumpLines' = DumpLines
  BY <1>1, <1>2 DEF DumpLines
<1>4. \A i : LineEnd(i)' = LineEnd(i)
  BY <1>3 DEF LineEnd
<1>5. Dump' = Dump
  BY DEF Dump, AsciiDump, BinaryDump
<1>6. \A c : InPlace(c)' <=> InPlace(c)
  BY <1>1 DEF InPlace
<1> QED
  BY <1>1, <1>2, <1>3, <1>4, <1>5, <1>6

LEMMA DataLeft ==
  ASSUME NEW u \in {1, 4}, NEW d \in Int, NEW n \in Int
  PROVE  /\ u * d - n * u = u * (d - n) /\ (u * d > 0 <=> d > 0) /\ (u * d) \div u = d
         /\ u * n = n * u
<1>1. CASE u = 1
  BY <1>1
<1>2. CASE u = 4
  BY <1>2
<1> QED
  BY <1>1, <1>2

\* From datum P on, with l bytes left: a line of n data, and the place after it.
LineAfter(S, u, D, P, p, l, n) ==
  /\ P < D /\ n = Smaller(LineData, D - P) /\ n \in Nat /\ P + n <= D
  /\ l - n * u > 0 =>
       /\ l - n * u = u * (D - (P + LineData))
       /\ AtDatum(S, u, U32(p + n * u), P + LineData)

LEMMA LineMade ==
  ASSUME NEW S \in Nat, NEW D \in Nat, NEW u \in {1, 4}, S + u * D <= AddrMod, NEW P \in Nat,
         NEW p, AtDatum(S, u, p, P), NEW l, l > 0, l = u * (D - P),
         NEW n, n = Smaller(LineData, l \div u)
  PROVE  LineAfter(S, u, D, P, p, l, n)
<1> DEFINE k == P + LineData
<1>1. LineData \in Nat /\ LineData > 0
  BY ReadAssumption DEF ReadAssumption
<1>2. D - P \in Int
  OBVIOUS
<1>4. l \div u = D - P /\ P < D
  BY <1>2, DataLeft
<1>5. n = Smaller(LineData, D - P) /\ n \in Nat /\ P + n <= D /\ (n = LineData \/ n = D - P)
  BY <1>1, <1>4 DEF Smaller
<1>6. l - n * u = u * (D - P - n) /\ (u * (D - P - n) > 0 <=> D - P - n > 0)
  <2> DEFINE d == D - P
  <2>1. d \in Int /\ d - n \in Int /\ n \in Int
    BY <1>2, <1>5
  <2>2. l = u * d
    OBVIOUS
  <2> HIDE DEF d
  <2>3. u * d - n * u = u * (d - n)
    BY <2>1, DataLeft
  <2>4. u * (d - n) > 0 <=> d - n > 0
    BY <2>1, DataLeft
  <2> QED
    BY <2>2, <2>3, <2>4 DEF d
<1>7. ASSUME l - n * u > 0
      PROVE  P + n < D /\ P + n = k /\ D - P - n = D - k
  <2>1. D - P - n > 0
    BY <1>6, <1>7
  <2> QED
    BY <1>1, <1>5, <2>1
<1>8. ASSUME P + n < D
      PROVE  AtDatum(S, u, U32(p + n * u), P + n)
  BY <1>5, <1>8, DatumAt
<1> HIDE DEF k
<1> QED
  BY <1>4, <1>5, <1>6, <1>7, <1>8 DEF k, LineAfter

\* The line that NewLine makes, after m lines.
LEMMA LineInBuffer ==
  ASSUME TapInv, WriteInv, NewLine, Sensible(req), NEW m \in 0..LineCount, MadeLines(m)
  PROVE  m + 1 \in 0..LineCount /\ Len(line_buf') > 0 /\ MadeLines(m + 1)' /\ HoldsLine(m + 1)'
<1> DEFINE S == Start(req)
           D == DataCount
           u == DatumSize
           P == m * LineData
           n == Smaller(LineData, nleft \div Unit)
           data == [k \in 1..n |-> Datum(U32(ptr + (k - 1) * Unit))]
<1>1. /\ handler \in Ascii /\ status = "open" /\ nleft > 0 /\ lidx = 0
      /\ u32' = u32 + 16 /\ UNCHANGED <<req, transfer>>
      /\ ptr' = U32(ptr + n * Unit) /\ nleft' = nleft - n * Unit
  BY DEF NewLine, Looping, request
<1>2. handler = Handler(req) /\ ~req.write
  BY <1>1, SessionIs DEF TapInv
<1>3. Unit = u
  BY <1>2 DEF Unit, DatumSize
<1>4. /\ S \in Nat /\ Total \in Int /\ u \in {1, 4} /\ D \in Nat /\ S + u * D <= AddrMod
      /\ Total >= 0 => Total = u * D
      /\ DumpLaidOut
  BY <1>1, <1>2, AsciiReadingIs
<1>5. LineCount \in Nat /\ \A i \in Nat : i * LineData < D <=> i < LineCount
  BY <1>4 DEF DumpLaidOut
<1>6. m \in Nat /\ LineData \in Nat /\ P \in Nat
  BY <1>5, ReadAssumption DEF ReadAssumption
<1>7. u32 = 16 * m /\ Total > 0 /\ nleft = u * (D - P) /\ AtDatum(S, u, ptr, P)
  BY <1>1 DEF MadeLines
<1>8. (m + 1) * LineData = P + LineData /\ (m + 1 - 1) * LineData = P
  BY <1>6
<1>9. /\ n \in Nat /\ IsSeq(line_buf') /\ Len(line_buf') = n + 2
      /\ line_buf'[1] = Label(u32) /\ line_buf'[n + 2] = Newline
      /\ \A k \in 1..n : line_buf'[k + 1] = Datum(U32(ptr + (k - 1) * u))
  <2>1. /\ n \in Nat /\ IsSeq(line_buf') /\ Len(line_buf') = n + 2
        /\ line_buf'[1] = Label(u32) /\ line_buf'[n + 2] = Newline
        /\ \A k \in 1..n : line_buf'[k + 1] = data[k]
    BY NewLineIs
  <2>2. \A k \in 1..n : data[k] = Datum(U32(ptr + (k - 1) * u))
    BY <1>3
  <2> HIDE DEF data, n
  <2> QED
    BY <2>1, <2>2
<1> HIDE DEF S, D, u, P
<1>10. /\ P < D /\ n = Smaller(LineData, D - P) /\ P + n <= D
       /\ nleft - n * u > 0 =>
            nleft - n * u = u * (D - (P + LineData)) /\ AtDatum(S, u, U32(ptr + n * u), P + LineData)
  <2>1. n = Smaller(LineData, nleft \div u)
    BY <1>3
  <2> HIDE DEF n
  <2>2. LineAfter(S, u, D, P, ptr, nleft, n)
    BY <1>1, <1>4, <1>6, <1>7, <2>1, LineMade, Zenon
  <2> QED
    BY <2>2 DEF LineAfter
<1> HIDE DEF n
<1>11. m + 1 \in 0..LineCount /\ m + 1 \in 1..LineCount
  <2>1. m < LineCount
    BY <1>5, <1>6, <1>10 DEF P
  <2> QED
    BY <1>5, <1>6, <2>1
<1>12. MadeLines(m + 1)'
  <2>1. DatumSize' = u /\ DataCount' = D /\ Total' = Total
    BY <1>1, ReadKept DEF u, D
  <2>2. u32' = 16 * (m + 1)
    BY <1>1, <1>6, <1>7
  <2>3. nleft' = nleft - n * u /\ ptr' = U32(ptr + n * u) /\ Start(req') = S
    BY <1>1, <1>3 DEF S
  <2> QED
    BY <1>7, <1>8, <1>10, <2>1, <2>2, <2>3 DEF MadeLines
<1>13. /\ OnLine(m + 1) = n /\ Len(DumpLine(m + 1)) = n + 2
       /\ DumpLine(m + 1)[1] = Label((m + 1 - 1) * 16) /\ DumpLine(m + 1)[n + 2] = Newline
       /\ \A k \in 1..n : DumpLine(m + 1)[k + 1] = <<transfer, S + (P + k - 1) * u>>
  <2>1. OnLine(m + 1) = n
    BY <1>8, <1>10 DEF OnLine, D, P
  <2> QED
    BY <1>4, <1>8, <1>11, <2>1, DumpLineIs DEF S, D, u
<1>14. ASSUME NEW k \in 1..n
       PROVE  /\ line_buf'[k + 1] = Read(S + u * (P + (k - 1)))
              /\ S + u * (P + (k - 1)) \in S..(S + Total - 1)
              /\ S + (P + k - 1) * u = S + u * (P + (k - 1))
  <2> DEFINE q == U32(ptr + (k - 1) * u)
             i == P + (k - 1)
  <2>1. k - 1 \in Nat /\ i < D /\ i \in Nat
    BY <1>4, <1>6, <1>9, <1>10
  <2>2. AtDatum(S, u, q, i) /\ S + u * i \in S..(S + u * D - 1)
    BY <1>4, <1>6, <1>7, <2>1, DatumAt
  <2>3. line_buf'[k + 1] = Datum(q)
    BY <1>9
  <2>5. P + k - 1 = i
    BY <1>6
  <2> HIDE DEF q, i
  <2>4. Datum(q) = Read(S + u * i)
    BY <1>3, <2>2 DEF Datum, Word, AtDatum
  <2>6. i * u = u * i
    BY <1>4, <2>1, DataLeft
  <2>7. u * D = Total
    BY <1>4, <1>7
  <2>8. S + (P + k - 1) * u = S + u * i
    BY <2>5, <2>6
  <2> QED
    BY <2>2, <2>3, <2>4, <2>7, <2>8 DEF i
<1>15. ASSUME NEW j \in 1..Len(line_buf')
       PROVE  /\ Plain(line_buf'[j]) = DumpLine(m + 1)[j] /\ InPlace(line_buf'[j])
              /\ line_buf'[j] = Newline <=> j = Len(line_buf')
  <2>1. CASE j = 1
    <3>1. u32 = (m + 1 - 1) * 16
      BY <1>6, <1>7
    <3>2. j # n + 2
      BY <1>9, <2>1
    <3> QED
      BY <1>9, <1>13, <2>1, <3>1, <3>2, CharIs
  <2>2. CASE j = n + 2
    BY <1>9, <1>13, <2>2, CharIs
  <2>3. CASE j # 1 /\ j # n + 2
    <3> DEFINE k == j - 1
    <3>1. k \in 1..n /\ j = k + 1
      BY <1>9, <2>3
    <3> HIDE DEF k
    <3> DEFINE a == S + u * (P + (k - 1))
    <3>2. line_buf'[j] = Read(a) /\ a \in S..(S + Total - 1) /\ DumpLine(m + 1)[j] = <<transfer, a>>
      BY <1>13, <1>14, <3>1
    <3> HIDE DEF a
    <3>3. Plain(Read(a)) = <<transfer, a>> /\ Read(a) # Newline /\ InPlace(Read(a))
      BY <3>2, CharIs DEF S
    <3> QED
      BY <1>9, <2>3, <3>2, <3>3
  <2> QED
    BY <2>1, <2>2, <2>3
<1>16. HoldsLine(m + 1)'
  <2>1. DumpLine(m + 1)' = DumpLine(m + 1) /\ \A c : InPlace(c)' <=> InPlace(c)
    BY <1>1, ReadKept
  <2> QED
    BY <1>9, <1>13, <1>15, <2>1 DEF HoldsLine
<1>17. Len(line_buf') > 0
  BY <1>9
<1> QED
  BY <1>11, <1>12, <1>16, <1>17

LEMMA NewLineStep ==
  ASSUME TapInv, WriteInv, ReadInv, NewLine
  PROVE  ReadInv'
<1>1. /\ handler \in Ascii /\ status = "open" /\ lidx = 0 /\ lidx' = 0 /\ pc = "loop" /\ pc' = "copy"
      /\ UNCHANGED <<handler, status, req, transfer, sent>>
  BY DEF NewLine, Looping, request
<1>2. AsciiReader'
  <2> SUFFICES ASSUME Sensible(req)
               PROVE  \E m \in 0..LineCount' : MadeLines(m)' /\ InLine(m)'
    BY <1>1 DEF AsciiReader
  <2>1. PICK m \in 0..LineCount : MadeLines(m) /\ InLine(m)
    BY <1>1 DEF ReadInv, AsciiReader
  <2>2. Len(sent) = LineEnd(m)
    BY <1>1, <2>1 DEF InLine
  <2>3. m + 1 \in 0..LineCount /\ Len(line_buf') > 0 /\ MadeLines(m + 1)' /\ HoldsLine(m + 1)'
    BY <2>1, LineInBuffer
  <2>4. handler = Handler(req) /\ ~req.write
    BY <1>1, SessionIs DEF TapInv
  <2>5. DumpLaidOut
    BY <1>1, <2>4, AsciiReadingIs
  <2>6. LineEnd(m) \in Nat /\ m \in Nat
    BY <2>5 DEF DumpLaidOut
  <2>7. LineCount' = LineCount /\ \A i : LineEnd(i)' = LineEnd(i)
    BY <1>1, ReadKept
  <2>8. m + 1 > 0 /\ m + 1 - 1 = m /\ LineEnd(m) = LineEnd(m) + 0
    BY <2>6
  <2>9. InLine(m + 1)'
    BY <1>1, <2>2, <2>3, <2>7, <2>8 DEF InLine
  <2> QED
    BY <2>3, <2>7, <2>9
<1>3. AsciiSent'
  BY <1>1, ReadKept DEF ReadInv, AsciiSent, Reading
<1> QED
  BY <1>2, <1>3 DEF ReadInv

LEMMA CopyStep ==
  ASSUME TapInv, ReadInv, Copy
  PROVE  ReadInv'
<1> DEFINE c == line_buf[lidx + 1]
<1>1. /\ pc = "copy" /\ sent' = Append(sent, c)
      /\ UNCHANGED <<handler, status, req, transfer, ptr, nleft, u32, line_buf>>
      /\ IF c = Newline THEN lidx' = 0 /\ pc' = "loop" ELSE lidx' = lidx + 1
  BY DEF Copy, Emit, request, statics
<1>2. status = "open" /\ handler \in Ascii /\ handler = Handler(req) /\ ~req.write
  BY <1>1, SessionIs DEF TapInv, Counters, Granted, Ascii
<1>3. CASE ~Sensible(req)
  BY <1>1, <1>3 DEF ReadInv, AsciiReader, AsciiSent, Reading
<1>4. CASE Sensible(req)
  <2>1. PICK m \in 0..LineCount : MadeLines(m) /\ InLine(m)
    BY <1>2, <1>4 DEF ReadInv, AsciiReader
  <2>2. /\ m > 0 /\ Len(sent) = LineEnd(m - 1) + lidx /\ lidx < Len(line_buf) /\ HoldsLine(m)
        /\ lidx \in Nat
    BY <1>1, <1>2, <1>4, <2>1 DEF ReadInv, AsciiReader, InLine
  <2>3. DumpLaidOut /\ DataCount \in Nat
    BY <1>2, <1>4, AsciiReadingIs
  <2>4. m \in 1..LineCount /\ m - 1 \in 0..LineCount /\ LineCount \in Nat
    BY <2>2, <2>3 DEF DumpLaidOut
  <2>5. /\ LineEnd(m) \in Nat /\ LineEnd(m) <= Len(Dump) /\ LineEnd(m - 1) \in Nat
        /\ LineEnd(m) = LineEnd(m - 1) + Len(DumpLine(m))
        /\ \A j \in 1..Len(DumpLine(m)) : Dump[LineEnd(m - 1) + j] = DumpLine(m)[j]
    BY <2>3, <2>4 DEF DumpLaidOut
  <2>6. Len(line_buf) \in Nat /\ Len(line_buf) = Len(DumpLine(m)) /\ Len(Dump) \in Nat
    <3>1. IsSeq(DumpLine(m)) /\ IsSeq(Dump)
      BY <2>3, <2>4, DumpLineIs DEF DumpLaidOut
    <3> QED
      BY <2>2, <3>1 DEF HoldsLine, IsSeq
  <2>7. /\ lidx + 1 \in 1..Len(line_buf) /\ Plain(c) = DumpLine(m)[lidx + 1] /\ InPlace(c)
        /\ c = Newline <=> lidx + 1 = Len(line_buf)
    <3>1. lidx + 1 \in 1..Len(line_buf)
      BY <2>2, <2>6
    <3> QED
      BY <2>2, <3>1 DEF HoldsLine
  <2>8. IsSeq(sent) /\ \A k \in 1..Len(sent) : Plain(sent[k]) = Dump[k] /\ InPlace(sent[k])
    BY <1>2, <1>4 DEF ReadInv, AsciiSent, Reading
  <2> HIDE DEF c
  <2>9. /\ IsSeq(sent') /\ Len(sent) \in Nat /\ Len(sent') = Len(sent) + 1
        /\ sent'[Len(sent) + 1] = c /\ \A k \in 1..Len(sent) : sent'[k] = sent[k]
    BY <1>1, <2>8, AppendIsSeq
  <2>10. LineEnd(m - 1) + (lidx + 1) = Len(sent) + 1 /\ Len(sent) + 1 <= Len(Dump)
    BY <2>2, <2>5, <2>6, <2>7
  <2>11. Plain(c) = Dump[Len(sent) + 1]
    <3>1. Dump[LineEnd(m - 1) + (lidx + 1)] = DumpLine(m)[lidx + 1]
      BY <2>5, <2>6, <2>7
    <3> QED
      BY <2>7, <2>10, <3>1
  <2>12. /\ LineCount' = LineCount /\ Dump' = Dump /\ \A k : InPlace(k)' <=> InPlace(k)
         /\ \A i : LineEnd(i)' = LineEnd(i)
    BY <1>1, ReadKept
  <2>13. AsciiSent'
    <3>1. ASSUME NEW k \in 1..Len(sent')
          PROVE  Plain(sent'[k]) = Dump[k] /\ InPlace(sent'[k])
      <4>1. CASE k = Len(sent) + 1
        BY <2>7, <2>9, <2>11, <4>1
      <4>2. CASE k # Len(sent) + 1
        <5>1. k \in 1..Len(sent)
          BY <2>9, <4>2
        <5> QED
          BY <2>8, <2>9, <5>1
      <4> QED
        BY <4>1, <4>2
    <3> QED
      BY <2>9, <2>10, <2>12, <3>1 DEF AsciiSent
  <2>14. MadeLines(m)'
    BY <1>1, <2>1, ReadKept DEF MadeLines
  <2>15. HoldsLine(m)'
    BY <1>1, <2>2, ReadKept DEF HoldsLine
  <2>16. InLine(m)' /\ lidx' \in Nat
    <3>1. CASE c = Newline
      <4>1. lidx + 1 = Len(DumpLine(m)) /\ Len(sent') = LineEnd(m)
        BY <2>2, <2>5, <2>6, <2>7, <2>9, <2>10, <3>1
      <4> QED
        BY <1>1, <2>12, <3>1, <4>1 DEF InLine
    <3>2. CASE c # Newline
      <4>1. lidx' = lidx + 1 /\ lidx' # 0 /\ Len(sent') = LineEnd(m - 1) + lidx' /\ lidx' \in Nat
            /\ lidx' < Len(line_buf)
        BY <1>1, <2>2, <2>6, <2>7, <2>9, <2>10, <3>2
      <4> QED
        BY <1>1, <2>2, <2>12, <2>15, <4>1 DEF InLine
    <3> QED
      BY <3>1, <3>2
  <2>17. AsciiReader'
    BY <2>1, <2>12, <2>14, <2>16 DEF AsciiReader
  <2> QED
    BY <2>13, <2>17 DEF ReadInv
<1> QED
  BY <1>3, <1>4

\* A step that leaves the reader where it is, or ends the transfer.
LEMMA ReaderStays ==
  ASSUME ReadInv, UNCHANGED <<req, transfer, sent>>, status = "open",
         \/ /\ UNCHANGED <<status, handler, ptr, nleft, lidx, u32, line_buf>>
            /\ pc' = pc \/ lidx # 0
         \/ status' = "done"
  PROVE  ReadInv'
<1>1. AsciiSent'
  BY ReadKept DEF ReadInv, AsciiSent, Reading
<1>2. CASE status' = "done"
  BY <1>1, <1>2 DEF ReadInv, AsciiReader
<1>3. CASE UNCHANGED <<status, handler, ptr, nleft, lidx, u32, line_buf>> /\ (pc' = pc \/ lidx # 0)
  <2>1. \A m : MadeLines(m)' <=> MadeLines(m)
    BY <1>3, ReadKept DEF MadeLines
  <2>2. \A m : HoldsLine(m)' <=> HoldsLine(m)
    BY <1>3, ReadKept DEF HoldsLine
  <2>3. \A m : InLine(m) => InLine(m)'
    BY <1>3, <2>2, ReadKept DEF InLine
  <2>4. AsciiReader'
    BY <1>3, <2>1, <2>3, ReadKept DEF ReadInv, AsciiReader
  <2> QED
    BY <1>1, <2>4 DEF ReadInv
<1> QED
  BY <1>2, <1>3

LEMMA ReadReadStep ==
  ASSUME TapInv, WriteInv, ReadInv, ReadStep
  PROVE  ReadInv'
<1>1. CASE MemByte \/ FpgaByte
  <2>1. /\ status = "open" /\ handler \notin Ascii /\ UNCHANGED <<status, handler, req>>
    BY <1>1 DEF MemByte, FpgaByte, Looping, request, Ascii
  <2>2. handler = Handler(req)
    BY <2>1, SessionIs DEF TapInv
  <2> QED
    BY <2>1, <2>2 DEF ReadInv, AsciiReader, AsciiSent
<1>2. CASE NewLine
  BY <1>2, NewLineStep
<1>3. CASE Copy
  BY <1>3, CopyStep
<1>4. CASE SameLine
  <2>1. /\ status = "open" /\ lidx # 0
        /\ UNCHANGED <<req, transfer, sent, status, handler, ptr, nleft, lidx, u32, line_buf>>
    BY <1>4 DEF SameLine, Looping, request, tapcp_state, statics
  <2> QED
    BY <2>1, ReaderStays
<1>5. CASE MemoryChanges
  <2>1. /\ handler # "none"
        /\ UNCHANGED <<req, transfer, sent, status, handler, ptr, nleft, lidx, u32, line_buf, pc>>
    BY <1>5 DEF MemoryChanges, request, tapcp_state, statics, Binary, Ascii
  <2>2. status = "open"
    BY <2>1 DEF TapInv, Granted
  <2> QED
    BY <2>1, <2>2, ReaderStays
<1>6. CASE Return
  <2>1. /\ status = "open" /\ UNCHANGED <<req, transfer, sent, lidx, u32, line_buf, pc>>
        /\ UNCHANGED <<status, handler, ptr, nleft>> \/ status' = "done"
    BY <1>6 DEF Return, statics
  <2> QED
    BY <2>1, ReaderStays
<1> QED
  BY <1>1, <1>2, <1>3, <1>4, <1>5, <1>6 DEF ReadStep

LEMMA ReadOpen ==
  ASSUME TapInv, OpenAny
  PROVE  ReadInv'
<1>1. PICK r \in Requests : Open(r)
  BY DEF OpenAny
<1>2. req' = r /\ sent' = <<>> /\ pc' = pc /\ status = "idle"
  BY <1>1 DEF Open
<1>3. CASE ~OpenRequest(r).ok
  <2>1. status' = "refused"
    BY <1>1, <1>3 DEF Open
  <2> QED
    BY <2>1 DEF ReadInv, AsciiReader, AsciiSent, Reading
<1>4. CASE OpenRequest(r).ok
  <2>1. /\ status' = "open" /\ handler' = Handler(r) /\ ptr' = OpenRequest(r).ptr
        /\ nleft' = OpenRequest(r).nleft
        /\ Handler(r) \in Ascii => lidx' = 0 /\ u32' = 0
    BY <1>1, <1>4 DEF Open, Binary, Ascii
  <2>2. pc' = "loop"
    <3>1. handler \notin Ascii
      BY <1>2 DEF TapInv, Granted, Ascii
    <3> QED
      BY <1>2, <3>1 DEF TapInv, Counters
  <2> DEFINE u == UnitOf(Handler(r))
             D == Extent(r) \div u
             S == Start(r)
  <2>3. AsciiSent'
    <3>1. 1..Len(<<>>) = {}
      BY EmptyIsSeq
    <3> QED
      BY <1>2, <3>1, EmptyIsSeq DEF AsciiSent
  <2>4. ASSUME Handler(r) \in Ascii, Sensible(r)
        PROVE  /\ u \in {1, 4} /\ D \in Nat /\ S \in Nat
               /\ nleft' > 0 => nleft' = u * D /\ AtDatum(S, u, ptr', 0)
    <3>1. OpensRead(r)
      BY <1>4, <2>4, HandlerIs, OpensToRead DEF Ascii
    <3>2. CASE Handler(r) = "mem_bytes_ascii"
      <4>1. u = 1 /\ D = Extent(r)
        BY <3>1, <3>2 DEF UnitOf, OpensRead
      <4>2. Extent(r) \in Nat /\ S \in Nat /\ OpenRequest(r).nleft \in Int
            /\ S + Extent(r) <= AddrMod
            /\ ptr' = S /\ (OpenRequest(r).nleft >= 0 => OpenRequest(r).nleft = Extent(r))
        BY <2>1, <3>1, <3>2 DEF OpensRead
      <4>3. nleft' > 0 => nleft' = 1 * D /\ S < AddrMod /\ S = S + 1 * 0
        BY <2>1, <4>1, <4>2, Modulus
      <4> QED
        BY <4>1, <4>2, <4>3 DEF AtDatum
    <3>3. CASE Handler(r) = "fpga_words_ascii"
      <4>1. u = 4 /\ D = Extent(r) \div 4
        BY <3>1, <3>3 DEF UnitOf, WordSize
      <4>2. /\ Extent(r) \in Nat /\ S \in Nat /\ OpenRequest(r).nleft = 4 * D
            /\ ptr' \in Nat /\ ptr' < AddrMod /\ AlignDown(ptr') = S
        BY <2>1, <3>1, <3>3, <4>1 DEF OpensRead
      <4>3. D \in Nat /\ S = S + 4 * 0
        BY <4>1, <4>2
      <4> QED
        BY <2>1, <4>1, <4>2, <4>3 DEF AtDatum
    <3> QED
      BY <2>4, <3>2, <3>3 DEF Ascii
  <2>5. AsciiReader'
    <3> SUFFICES ASSUME Handler(r) \in Ascii, Sensible(r)
                 PROVE  \E m \in 0..LineCount' : MadeLines(m)' /\ InLine(m)'
      BY <1>2, <2>1 DEF AsciiReader
    <3>1. DatumSize' = u /\ DataCount' = D /\ Total' = nleft' /\ Start(req') = S
      BY <1>2, <2>1 DEF DatumSize, DataCount, Total
    <3>2. LineData \in Nat /\ LineData > 0
      BY ReadAssumption DEF ReadAssumption
    <3> HIDE DEF u, D, S
    <3>3. (D + LineData - 1) \div LineData \in Nat
      BY <2>4, <3>2, RoundedUp
    <3>4. 0 \in 0..LineCount'
      BY <3>1, <3>3 DEF LineCount
    <3>5. 0 * LineData = 0 /\ D - 0 = D /\ 16 * 0 = 0
      BY <2>4, <3>2
    <3>6. MadeLines(0)'
      BY <2>1, <2>4, <3>1, <3>5 DEF MadeLines
    <3>7. InLine(0)'
      BY <1>2, <2>1, <2>2, EmptyIsSeq DEF InLine, LineEnd, Base
    <3> QED
      BY <3>4, <3>6, <3>7
  <2> QED
    BY <2>3, <2>5 DEF ReadInv
<1> QED
  BY <1>3, <1>4

LEMMA ReadInvStep ==
  ASSUME TapInv, WriteInv, ReadInv, [Next]_vars
  PROVE  ReadInv'
<1>1. CASE OpenAny
  BY <1>1, ReadOpen
<1>2. CASE Forget
  <2>1. status' = "idle"
    BY <1>2 DEF Forget
  <2> QED
    BY <2>1 DEF ReadInv, AsciiReader, AsciiSent, Reading
<1>3. CASE ReadStep /\ UNCHANGED wvars
  BY <1>3, ReadReadStep
<1>4. CASE WriteByte \/ WriteByteFull \/ WriteChar \/ NextBlock \/ EndUpload
  <2>1. /\ status = "open" /\ handler \in {"write_binary", "write_ascii"}
        /\ req' = req /\ (handler' = handler \/ handler' = "none")
    BY <1>4 DEF WriteByte, WriteByteFull, WriteChar, SkipChar, StoreChar, LineTooLong, NextBlock,
                EndUpload, Writing, Fail, Close, request
  <2>2. req.write
    BY <2>1, SessionIs DEF TapInv
  <2> QED
    BY <2>1, <2>2 DEF ReadInv, AsciiReader, AsciiSent, Reading, Ascii
<1>5. CASE GoneAway
  <2>1. status' = "lost"
    BY <1>5 DEF GoneAway, Abandon
  <2> QED
    BY <2>1 DEF ReadInv, AsciiReader, AsciiSent, Reading
<1>6. CASE UNCHANGED vars
  <2>1. UNCHANGED <<req, transfer, sent, status, handler, ptr, nleft, lidx, u32, line_buf, pc>>
    BY <1>6 DEF vars, rvars, request, tapcp_state, statics
  <2>2. CASE status = "open"
    BY <2>1, <2>2, ReaderStays
  <2>3. CASE status # "open"
    <3>1. AsciiSent'
      BY <2>1, ReadKept DEF ReadInv, AsciiSent, Reading
    <3> QED
      BY <2>1, <2>3, <3>1 DEF ReadInv, AsciiReader
  <2> QED
    BY <2>2, <2>3
<1> QED
  BY <1>1, <1>2, <1>3, <1>4, <1>5, <1>6 DEF Next

LEMMA ReadInvHolds == Spec => []ReadInv
<1>1. Init => ReadInv
  BY DEF Init, ReadInit, ReadInv, AsciiReader, AsciiSent, Reading
<1>2. TapInv /\ WriteInv /\ ReadInv /\ [Next]_vars => ReadInv'
  BY ReadInvStep
<1> QED
  BY <1>1, <1>2, TapInvHolds, WriteInvHolds, PTL DEF Spec

(***************************************************************************)
(* A read past the end of its device.                                      *)
(***************************************************************************)
\* Fewer than nothing, as the openers count it.
LEMMA Negative ==
  ASSUME NEW k \in Nat, k > 0, 4 * k < AddrMod \div 2
  PROVE  Int32(4 * U32(0 - k)) \in Int /\ Int32(4 * U32(0 - k)) < 0
<1> DEFINE m == AddrMod
<1>1. m \in Nat /\ m > 0 /\ m \div 2 \in Nat /\ 4 * k < m /\ m - 4 * k >= m \div 2
  BY Modulus
<1>2. U32(0 - k) = m - k
  <2>1. (0 - k) % m = m - k
    BY <1>1
  <2> QED
    BY <2>1 DEF U32
<1>3. U32(4 * (m - k)) = m - 4 * k
  <2>1. 4 * (m - k) = 3 * m + (m - 4 * k) /\ m - 4 * k \in 0..(m - 1)
    BY <1>1
  <2>2. (3 * m + (m - 4 * k)) % m = m - 4 * k
    BY <1>1, <2>1
  <2> QED
    BY <2>1, <2>2 DEF U32
<1>4. Int32(4 * (m - k)) = 0 - 4 * k
  BY <1>1, <1>3 DEF Int32
<1> QED
  BY <1>2, <1>4

LEMMA OpensPastEnd ==
  ASSUME NEW r \in Requests, PastEnd(r), OpenRequest(r).ok
  PROVE  OpenRequest(r).nleft \in Int /\ OpenRequest(r).nleft < 0
<1> DEFINE d == Devices[r.name]
           words == d.length \div 4
           n == U32(words - r.off)
           k == r.off - words
<1>1. r.cmd = "dev" /\ r.cmd \notin DOMAIN Texts /\ r.name \in DOMAIN Devices
  BY TextIs DEF PastEnd
<1>2. OpenRequest(r) = IF n = 0 \/ U32(r.off + n) > words THEN Refused
                       ELSE Opened(DevAddr(r.name) + WordSize * r.off, Int32(WordSize * n))
  BY <1>1 DEF OpenRequest, OpenDev, None, WordSize, PastEnd
<1>3. d.length \in Nat /\ r.off \in Nat /\ d.length < 4 * r.off /\ 4 * r.off < AddrMod \div 2
  BY <1>1, DeviceIs, RequestIs DEF PastEnd, WordSize
<1> HIDE DEF d
<1>4. k \in Nat /\ k > 0 /\ 4 * k < AddrMod \div 2 /\ words - r.off = 0 - k
  <2>1. words \in Nat /\ 4 * words <= d.length /\ words < r.off
    BY <1>3
  <2> HIDE DEF words
  <2> QED
    BY <1>3, <2>1, Modulus
<1>5. Int32(4 * n) \in Int /\ Int32(4 * n) < 0
  <2> HIDE DEF k, words
  <2> QED
    BY <1>4, Negative
<1>6. OpenRequest(r).nleft = Int32(4 * n)
  BY <1>2 DEF Refused, Opened, WordSize
<1> HIDE DEF n
<1> QED
  BY <1>5, <1>6

\* Nothing is left of it, and nothing is sent.
PastInv ==
  status \in {"open", "done"} /\ PastEnd(req) =>
    nleft \in Int /\ ~(nleft > 0) /\ sent = <<>> /\ pc = "loop"

LEMMA PastInvStep ==
  ASSUME TapInv, PastInv, [Next]_vars
  PROVE  PastInv'
<1>1. CASE OpenAny
  <2>1. PICK r \in Requests : Open(r)
    BY <1>1 DEF OpenAny
  <2>2. /\ status = "idle" /\ req' = r /\ sent' = <<>> /\ pc' = pc
        /\ IF OpenRequest(r).ok THEN nleft' = OpenRequest(r).nleft ELSE status' = "refused"
    BY <2>1 DEF Open
  <2>3. pc = "loop"
    <3>1. handler = "none"
      BY <2>2 DEF TapInv, Granted
    <3> QED
      BY <3>1 DEF TapInv, Counters, Ascii
  <2>4. PastEnd(req)' <=> PastEnd(r)
    BY <2>2 DEF PastEnd
  <2>5. ASSUME PastEnd(r), OpenRequest(r).ok
        PROVE  nleft' \in Int /\ ~(nleft' > 0)
    BY <2>2, <2>5, OpensPastEnd
  <2> QED
    BY <2>2, <2>3, <2>4, <2>5 DEF PastInv
<1>2. CASE Forget \/ GoneAway
  <2>1. status' \in {"idle", "lost"}
    BY <1>2 DEF Forget, GoneAway, Abandon
  <2> QED
    BY <2>1 DEF PastInv
<1>3. CASE MemByte \/ FpgaByte \/ NewLine \/ SameLine
  <2>1. status = "open" /\ nleft > 0 /\ req' = req
    BY <1>3 DEF MemByte, FpgaByte, NewLine, SameLine, Looping, request
  <2> QED
    BY <2>1 DEF PastInv, PastEnd
<1>4. CASE Copy
  <2>1. pc = "copy" /\ req' = req /\ status' = status
    BY <1>4 DEF Copy, request
  <2> QED
    BY <2>1 DEF PastInv, PastEnd
<1>5. CASE Return
  <2>1. /\ status = "open" /\ req' = req /\ sent' = sent /\ pc' = pc
        /\ nleft' = nleft \/ nleft' = 0
    BY <1>5 DEF Return, Close
  <2> QED
    BY <2>1 DEF PastInv, PastEnd
<1>6. CASE MemoryChanges \/ UNCHANGED vars
  <2>1. status' = status /\ req' = req /\ sent' = sent /\ pc' = pc /\ nleft' = nleft
    BY <1>6 DEF MemoryChanges, vars, rvars, request, tapcp_state
  <2> QED
    BY <2>1 DEF PastInv, PastEnd
<1>7. CASE WriteByte \/ WriteByteFull \/ WriteChar \/ NextBlock \/ EndUpload
  <2>1. status = "open" /\ handler \in {"write_binary", "write_ascii"} /\ req' = req
    BY <1>7 DEF WriteByte, WriteByteFull, WriteChar, SkipChar, StoreChar, LineTooLong, NextBlock,
                EndUpload, Writing, Fail, Close, request
  <2>2. req.write
    BY <2>1, SessionIs DEF TapInv
  <2> QED
    BY <2>1, <2>2 DEF PastInv, PastEnd
<1> QED
  BY <1>1, <1>2, <1>3, <1>4, <1>5, <1>6, <1>7 DEF Next, ReadStep

LEMMA PastInvHolds == Spec => []PastInv
<1>1. Init => PastInv
  BY DEF Init, ReadInit, PastInv
<1>2. TapInv /\ PastInv /\ [Next]_vars => PastInv'
  BY PastInvStep
<1> QED
  BY <1>1, <1>2, TapInvHolds, PTL DEF Spec

(***************************************************************************)
(* What the invariants give.                                               *)
(***************************************************************************)
LEMMA GrantedRead ==
  ASSUME TapInv, Reading
  PROVE  /\ req \in Requests /\ OpenRequest(req).ok /\ OpensRead(req)
         /\ Handler(req) \in Binary \cup Ascii
<1>1. req \in Requests /\ OpenRequest(req).ok /\ ~req.write /\ Sensible(req)
  BY DEF TapInv, Granted, Reading
<1> QED
  BY <1>1, OpensToRead, HandlerIs

LEMMA GrantedWrite ==
  ASSUME TapInv, Uploading
  PROVE  /\ req \in Requests /\ OpensWrite(req) /\ req.binary \in BOOLEAN
         /\ Start(req) \in Nat /\ Total \in Nat
         /\ Start(req)..(Start(req) + Total - 1) \subseteq Region(req)
<1>1. req \in Requests /\ OpenRequest(req).ok /\ req.write /\ Sensible(req)
  BY DEF TapInv, Granted, Uploading
<1> QED
  BY <1>1, OpensToWrite, RequestIs DEF OpensWrite, Total

LEMMA PrefixIs ==
  ASSUME NEW s, IsSeq(s), NEW t, IsSeq(t), Len(s) <= Len(t), \A k \in 1..Len(s) : s[k] = t[k]
  PROVE  IsPrefix(s, t)
<1> DEFINE m == Len(s)
           n == Len(t)
<1>1. /\ m \in Nat /\ n \in Nat /\ m <= n
      /\ s = [k \in 1..m |-> s[k]] /\ t = [k \in 1..n |-> t[k]] /\ \A k \in 1..m : s[k] = t[k]
  BY DEF IsSeq
<1>2. SubSeq(s, 1, m) = [k \in 1..m |-> s[k]] /\ SubSeq(t, 1, m) = [k \in 1..m |-> t[k]]
  BY <1>1
<1>3. [k \in 1..m |-> s[k]] = [k \in 1..m |-> t[k]]
  BY <1>1
<1> QED
  BY <1>1, <1>2, <1>3 DEF IsPrefix

\* The k-th byte of a binary read, of its own transfer and from its own address.
LEMMA ByteIs ==
  ASSUME TapInv, Reading, Handler(req) \in Binary, NEW k \in 1..Len(sent)
  PROVE  /\ k \in Nat /\ k >= 1 /\ k <= Total
         /\ DOMAIN sent[k] = {"of", "byte"}
         /\ sent[k].of.transfer = transfer
         /\ sent[k].of.at + sent[k].byte = Start(req) + k - 1
<1>1. /\ sent \in Seq(Byte) /\ (Len(sent) <= Total \/ sent = <<>>)
      /\ sent[k].of.transfer = transfer
      /\ sent[k].of.at = From(k) /\ sent[k].byte = Place(k)
  BY DEF TapInv, BytesSent
<1>2. Len(sent) \in Nat /\ Total \in Int /\ Start(req) \in Nat
  BY <1>1, GrantedRead DEF OpensRead, Total
<1>3. k \in Nat /\ k >= 1 /\ k <= Len(sent) /\ Len(sent) # 0
  BY <1>2
<1>4. k <= Total
  <2>1. sent # <<>>
    BY <1>3
  <2> QED
    BY <1>1, <1>2, <1>3, <2>1
<1>5. sent[k] \in Byte
  BY <1>1, <1>3
<1>6. DOMAIN sent[k] = {"of", "byte"}
  BY <1>5 DEF Byte
<1>7. From(k) + Place(k) = Start(req) + k - 1
  BY <1>2, <1>3 DEF From, Place, AlignDown, WordSize
<1> QED
  BY <1>1, <1>3, <1>4, <1>6, <1>7

\* The dump, and what was sent, character by character.
LEMMA BytesInOrder ==
  ASSUME TapInv, Reading, Handler(req) \in Binary
  PROVE  /\ IsSeq(sent) /\ IsSeq(Dump) /\ Len(sent) <= Len(Dump)
         /\ \A k \in 1..Len(sent) : Plain(sent[k]) = Dump[k]
<1>1. Extent(req) \in Nat /\ Total \in Int /\ Total <= Extent(req)
  BY GrantedRead DEF OpensRead, Total
<1>2. sent \in Seq(Byte) /\ (Len(sent) <= Total \/ sent = <<>>)
  BY DEF TapInv, BytesSent
<1>3. Len(sent) \in Nat /\ Len(sent) <= Extent(req)
  BY <1>1, <1>2
<1>4. IsSeq(sent)
  BY <1>2, SeqIs
<1>5. Dump = [k \in 1..Extent(req) |-> <<transfer, Start(req) + k - 1>>]
  BY DEF Dump, BinaryDump
<1>6. IsSeq(Dump) /\ Len(Dump) = Extent(req)
  <2> DEFINE n == Extent(req)
             t == Dump
  <2>1. n \in Nat /\ t = [k \in 1..n |-> t[k]]
    BY <1>1, <1>5
  <2> HIDE DEF n, t
  <2>2. IsSeq(t) /\ Len(t) = n
    BY <2>1, FunctionIsSeq
  <2> QED
    BY <2>2 DEF n, t
<1>7. ASSUME NEW k \in 1..Len(sent) PROVE Plain(sent[k]) = Dump[k]
  <2>1. /\ DOMAIN sent[k] = {"of", "byte"} /\ sent[k].of.transfer = transfer
        /\ sent[k].of.at + sent[k].byte = Start(req) + k - 1
    BY ByteIs
  <2>2. Plain(sent[k]) = <<transfer, Start(req) + k - 1>>
    BY <2>1 DEF Plain
  <2>3. k \in 1..Extent(req)
    BY <1>1, <1>3
  <2> QED
    BY <1>5, <2>2, <2>3
<1> QED
  BY <1>3, <1>4, <1>6, <1>7

LEMMA TextInOrder ==
  ASSUME TapInv, ReadInv, Reading, Handler(req) \in Ascii
  PROVE  /\ IsSeq(sent) /\ IsSeq(Dump) /\ Len(sent) <= Len(Dump)
         /\ \A k \in 1..Len(sent) : Plain(sent[k]) = Dump[k] /\ InPlace(sent[k])
         /\ Start(req)..(Start(req) + Total - 1) \subseteq Region(req)
<1>1. IsSeq(Dump) /\ Start(req)..(Start(req) + Total - 1) \subseteq Region(req)
  BY AsciiReadingIs DEF Reading, DumpLaidOut
<1>2. /\ IsSeq(sent) /\ (sent = <<>> \/ Len(sent) <= Len(Dump))
      /\ \A k \in 1..Len(sent) : Plain(sent[k]) = Dump[k] /\ InPlace(sent[k])
  BY DEF ReadInv, AsciiSent
<1>3. Len(Dump) \in Nat
  BY <1>1 DEF IsSeq
<1> QED
  BY <1>1, <1>2, <1>3, EmptyIsSeq

LEMMA ReadsInOrder ==
  ASSUME TapInv, ReadInv
  PROVE  InOrder
<1> SUFFICES ASSUME Reading PROVE IsPrefix([k \in 1..Len(sent) |-> Plain(sent[k])], Dump)
  BY DEF InOrder
<1>1. /\ IsSeq(sent) /\ IsSeq(Dump) /\ Len(sent) <= Len(Dump)
      /\ \A k \in 1..Len(sent) : Plain(sent[k]) = Dump[k]
  BY GrantedRead, BytesInOrder, TextInOrder
<1> DEFINE n == Len(sent)
           s == [k \in 1..n |-> Plain(sent[k])]
<1>2. n \in Nat /\ s = [k \in 1..n |-> s[k]] /\ \A k \in 1..n : s[k] = Dump[k]
  BY <1>1 DEF IsSeq
<1>3. n <= Len(Dump)
  BY <1>1
<1> HIDE DEF n, s
<1>4. IsSeq(s) /\ Len(s) = n
  BY <1>2, FunctionIsSeq
<1>5. IsPrefix(s, Dump)
  BY <1>1, <1>2, <1>3, <1>4, PrefixIs
<1> QED
  BY <1>5 DEF s, n

LEMMA ReadsComplete ==
  ASSUME TapInv, Small(req)
  PROVE  Complete
<1> SUFFICES ASSUME Reading, Handler(req) \in Binary, status = "done"
             PROVE  Len(sent) = Len(Dump)
  BY DEF Complete
<1>1. Extent(req) \in Nat /\ Total = Extent(req)
  BY GrantedRead DEF OpensRead, Total
<1>2. Len(sent) = Total \/ Total < 0
  BY DEF TapInv, BytesSent
<1>3. Len(Dump) = Extent(req)
  BY <1>1 DEF Dump, BinaryDump
<1> QED
  BY <1>1, <1>2, <1>3

LEMMA WordsPlaced ==
  ASSUME TapInv, Uploading, req.binary
  PROVE  /\ stored \in Seq([at : Nat, word : Seq(Nat)]) /\ got \in Nat
         /\ Len(stored) = got \div 4 /\ got <= Total
         /\ \A k \in 1..Len(stored) : stored[k] = Stored(k)
         /\ status = "failed" => got = Total
  BY DEF TapInv, Counters, WordsStored

LEMMA StoredIs ==
  ASSUME NEW k, stored[k] = Stored(k)
  PROVE  /\ stored[k].at = Start(req) + 4 * (k - 1)
         /\ stored[k].word = [j \in 1..4 |-> 4 * (k - 1) + j]
  BY DEF Stored

\* The words of an upload of either kind, and the region.
LEMMA WordsFit ==
  ASSUME TapInv, WriteInv, Uploading
  PROVE  /\ Len(stored) \in Nat /\ 4 * Len(stored) <= Total
         /\ \A k \in 1..Len(stored) : stored[k].at = Start(req) + 4 * (k - 1)
         /\ status = "failed" => \/ Len(stored) = Total \div 4
                                 \/ ~req.binary /\ Len(line) >= LineBufSize
<1>1. req.binary \in BOOLEAN /\ Total \in Nat
  BY GrantedWrite
<1>2. CASE req.binary
  <2>1. /\ got \in Nat /\ Len(stored) = got \div 4 /\ got <= Total
        /\ \A k \in 1..Len(stored) : stored[k] = Stored(k)
        /\ status = "failed" => got = Total
    BY <1>2, WordsPlaced
  <2>2. \A k \in 1..Len(stored) : stored[k].at = Start(req) + 4 * (k - 1)
    BY <2>1, StoredIs
  <2>3. Len(stored) \in Nat /\ 4 * Len(stored) <= Total
    BY <1>1, <2>1
  <2>4. status = "failed" => Len(stored) = Total \div 4
    BY <2>1
  <2> QED
    BY <2>2, <2>3, <2>4
<1>3. CASE ~req.binary
  <2>1. /\ IsSeq(stored) /\ 4 * Len(stored) <= Total
        /\ \A k \in 1..Len(stored) : stored[k].at = Start(req) + 4 * (k - 1)
        /\ status = "failed" => Len(stored) = Total \div 4 \/ Len(line) >= LineBufSize
    BY <1>3 DEF WriteInv, AsciiStored
  <2>2. Len(stored) \in Nat
    BY <2>1 DEF IsSeq
  <2> QED
    BY <1>3, <2>1, <2>2
<1> QED
  BY <1>1, <1>2, <1>3

LEMMA UploadsInPlace ==
  ASSUME TapInv, WriteInv
  PROVE  StoredInPlace
<1> SUFFICES ASSUME Uploading
             PROVE  /\ \A k \in 1..Len(stored) : stored[k].at = Start(req) + 4 * (k - 1)
                    /\ req.binary =>
                         Words = [k \in 1..(got \div 4) |-> [j \in 1..4 |-> 4 * (k - 1) + j]]
  BY DEF StoredInPlace, WordSize
<1>1. ASSUME req.binary
      PROVE  Words = [k \in 1..(got \div 4) |-> [j \in 1..4 |-> 4 * (k - 1) + j]]
  <2>1. Len(stored) = got \div 4 /\ \A k \in 1..Len(stored) : stored[k] = Stored(k)
    BY <1>1, WordsPlaced
  <2>2. \A k \in 1..Len(stored) : stored[k].word = [j \in 1..4 |-> 4 * (k - 1) + j]
    BY <2>1, StoredIs
  <2> QED
    BY <2>1, <2>2, Zenon DEF Words
<1> QED
  BY <1>1, WordsFit

LEMMA InOwnMemory ==
  ASSUME TapInv, WriteInv, ReadInv, PastInv
  PROVE  OwnMemory
<1>1. ASSUME Reading, Handler(req) \in Binary
      PROVE  SentFrom \subseteq Region(req)
  <2>1. OpensRead(req)
    BY <1>1, GrantedRead
  <2>2. /\ Start(req)..(Start(req) + Total - 1) \subseteq Region(req)
        /\ Start(req) \in Nat /\ Total \in Int
    BY <2>1 DEF OpensRead, Total
  <2>3. \A k \in 1..Len(sent) : /\ DOMAIN sent[k] = {"of", "byte"}
                                /\ sent[k].of.at + sent[k].byte \in Region(req)
    <3> SUFFICES ASSUME NEW k \in 1..Len(sent)
                 PROVE  /\ DOMAIN sent[k] = {"of", "byte"}
                        /\ sent[k].of.at + sent[k].byte \in Region(req)
      OBVIOUS
    <3>1. /\ k \in Nat /\ k >= 1 /\ k <= Total /\ DOMAIN sent[k] = {"of", "byte"}
          /\ sent[k].of.at + sent[k].byte = Start(req) + k - 1
      BY <1>1, ByteIs
    <3>2. Start(req) + k - 1 \in Start(req)..(Start(req) + Total - 1)
      BY <2>2, <3>1
    <3> QED
      BY <2>2, <3>1, <3>2
  <2> QED
    BY <2>3 DEF SentFrom
<1>2. ASSUME Reading, Handler(req) \in Ascii
      PROVE  SentFrom \subseteq Region(req)
  <2>1. /\ \A k \in 1..Len(sent) : InPlace(sent[k])
        /\ Start(req)..(Start(req) + Total - 1) \subseteq Region(req)
    BY <1>2, TextInOrder
  <2> QED
    BY <2>1 DEF SentFrom, InPlace
<1>3. ASSUME Uploading, NEW k \in 1..Len(stored)
      PROVE  stored[k].at..(stored[k].at + WordSize - 1) \subseteq Region(req)
  <2>1. /\ stored[k].at = Start(req) + 4 * (k - 1) /\ Len(stored) \in Nat
        /\ 4 * Len(stored) <= Total
    BY <1>3, WordsFit
  <2>2. /\ Start(req)..(Start(req) + Total - 1) \subseteq Region(req)
        /\ Start(req) \in Nat /\ Total \in Nat
    BY <1>3, GrantedWrite
  <2>3. k \in Nat /\ k >= 1 /\ 4 * k <= Total
    BY <1>3, <2>1, <2>2
  <2>4. stored[k].at..(stored[k].at + 4 - 1) \subseteq Start(req)..(Start(req) + Total - 1)
    BY <2>1, <2>2, <2>3
  <2> QED
    BY <2>2, <2>4 DEF WordSize
<1>4. Reading => SentFrom \subseteq Region(req)
  BY <1>1, <1>2, GrantedRead
<1> QED
  BY <1>3, <1>4 DEF OwnMemory, PastInv

\* The words for which there is room.
LEMMA RoomIs ==
  ASSUME TapInv, Uploading
  PROVE  Room = Total \div 4
<1>1. OpensWrite(req) /\ Start(req) \in Nat
  BY GrantedWrite
<1>2. PICK e \in Nat : /\ {a \in Region(req) : a >= Start(req)} = Start(req)..e
                       /\ e + 1 >= Start(req) /\ (e + 1 - Start(req)) \div 4 = Total \div 4
  BY <1>1 DEF OpensWrite, Total
<1>3. Cardinality(Start(req)..e) = e + 1 - Start(req)
  <2> DEFINE S == Start(req)
  <2>1. S \in Int /\ e \in Int
    BY <1>1
  <2> HIDE DEF S
  <2>2. Cardinality(S..e) = IF S > e THEN 0 ELSE e - S + 1
    BY <2>1, FS_Interval
  <2>3. e + 1 >= S
    BY <1>2 DEF S
  <2>4. Cardinality(S..e) = e + 1 - S
    BY <2>1, <2>2, <2>3
  <2> QED
    BY <2>4 DEF S
<1> QED
  BY <1>2, <1>3 DEF Room, WordSize

LEMMA FailsFull ==
  ASSUME TapInv, WriteInv
  PROVE  FailsOnlyWhenFull
  BY WordsFit, RoomIs DEF FailsOnlyWhenFull

(***************************************************************************)
(* Which words a line has: the loop over it against the documented format.  *)
(***************************************************************************)
\* The remainder of a number given by quotient and remainder.
LEMMA QuotientIs ==
  ASSUME NEW W \in Nat, W > 0, NEW q \in Nat, NEW x \in 0..(W - 1)
  PROVE  (q * W + x) % W = x
<1> DEFINE b == q * W + x
           d == b \div W
<1>1. q * W \in Nat /\ (q + 1) * W = q * W + W
  OBVIOUS
<1>2. b \in Nat
  BY <1>1
<1>3. \A y \in Nat : /\ y \div W \in Int /\ y = W * (y \div W) + (y % W)
                     /\ y % W \in 0..(W - 1)
  OBVIOUS
<1>4. d \in Int /\ b = W * d + (b % W) /\ b % W \in 0..(W - 1)
  BY <1>2, <1>3
<1> HIDE DEF d
<1>5. W * d = d * W /\ d * W \in Int /\ (d + 1) * W = d * W + W
  BY <1>4
<1>6. ~(d < q)
  <2> SUFFICES ASSUME d < q PROVE FALSE
    OBVIOUS
  <2>1. (d + 1) * W <= q * W
    BY <1>4, Grows
  <2> QED
    BY <1>1, <1>4, <1>5, <2>1
<1>7. ~(q < d)
  <2> SUFFICES ASSUME q < d PROVE FALSE
    OBVIOUS
  <2>1. (q + 1) * W <= d * W
    BY <1>4, Grows
  <2> QED
    BY <1>1, <1>4, <1>5, <2>1
<1>8. d = q
  BY <1>4, <1>6, <1>7
<1> QED
  BY <1>1, <1>4, <1>5, <1>8

\* Words of W digits: the next begins W further on, none in between.
LEMMA Multiples ==
  ASSUME NEW W \in Nat, W > 0, NEW a \in Nat, a % W = 0
  PROVE  (a + W) % W = 0 /\ \A x \in 1..(W - 1) : (a + x) % W # 0
<1> DEFINE q == a \div W
<1>1. q \in Nat /\ a = q * W
  OBVIOUS
<1> HIDE DEF q
<1>2. q + 1 \in Nat /\ (q + 1) * W + 0 = a + W /\ 0 \in 0..(W - 1)
  BY <1>1
<1>3. (a + W) % W = 0
  <2>1. ((q + 1) * W + 0) % W = 0
    BY <1>2, QuotientIs
  <2> QED
    BY <1>2, <2>1
<1>4. ASSUME NEW x \in 1..(W - 1) PROVE (a + x) % W # 0
  <2>1. x \in 0..(W - 1) /\ x # 0
    OBVIOUS
  <2>2. (q * W + x) % W = x
    BY <1>1, <2>1, QuotientIs
  <2> QED
    BY <1>1, <2>1, <2>2
<1> QED
  BY <1>3, <1>4

\* Where the words of a line begin, in the set of the places of its digits.
LEMMA StartsOfWords ==
  ASSUME NEW D, D \subseteq Nat \ {0}, NEW i \in D
  PROVE  /\ i - 1 \notin D => i \in WordStarts(D)
         /\ i \in WordStarts(D) /\ i..(i + WordDigits) \subseteq D => i + WordDigits \in WordStarts(D)
         /\ \A x \in 1..(WordDigits - 1) :
              i \in WordStarts(D) /\ i..(i + x) \subseteq D => i + x \notin WordStarts(D)
<1> DEFINE W == WordDigits
           Begins(g, j) == g \in 1..j /\ g..j \subseteq D /\ g - 1 \notin D
<1>0. W \in Nat /\ W > 0 /\ i \in Nat /\ i > 0
  BY WriteAssumption DEF WriteAssumption
<1>1. \A j : j \in WordStarts(D) <=> j \in D /\ \E g : Begins(g, j) /\ (j - g) % W = 0
  BY DEF WordStarts
<1>2. ASSUME i - 1 \notin D PROVE i \in WordStarts(D)
  <2>1. Begins(i, i)
    BY <1>0, <1>2
  <2>2. i - i = 0 /\ 0 % W = 0
    BY <1>0
  <2> QED
    BY <1>1, <2>1, <2>2
<1>3. ASSUME i \in WordStarts(D), NEW x \in Nat, x <= W, i..(i + x) \subseteq D
      PROVE  \E g \in 1..i : /\ Begins(g, i + x) /\ (i - g) % W = 0
                            /\ \A h : Begins(h, i + x) => h = g
  <2>1. PICK g : Begins(g, i) /\ (i - g) % W = 0
    BY <1>1, <1>3
  <2>2. Begins(g, i + x)
    <3>1. g \in 1..(i + x) /\ g - 1 \notin D
      BY <1>0, <2>1
    <3>2. ASSUME NEW j \in g..(i + x) PROVE j \in D
      <4>1. CASE j <= i
        BY <1>0, <2>1, <4>1
      <4>2. CASE j > i
        BY <1>0, <1>3, <2>1, <4>2
      <4> QED
        BY <1>0, <2>1, <4>1, <4>2
    <3> QED
      BY <3>1, <3>2
  <2>3. ASSUME NEW h, Begins(h, i + x) PROVE h = g
    <3>1. g \in 1..i /\ h \in 1..(i + x) /\ g - 1 \notin D /\ h - 1 \notin D
      BY <2>1, <2>3
    <3>2. ~(g < h)
      <4> SUFFICES ASSUME g < h PROVE h - 1 \in D
        BY <3>1
      <4>1. h - 1 \in g..(i + x)
        BY <1>0, <3>1
      <4> QED
        BY <2>2, <4>1
    <3>3. ~(h < g)
      <4> SUFFICES ASSUME h < g PROVE g - 1 \in D
        BY <3>1
      <4>1. g - 1 \in h..(i + x)
        BY <1>0, <3>1
      <4> QED
        BY <2>3, <4>1
    <3> QED
      BY <1>0, <3>1, <3>2, <3>3
  <2> QED
    BY <2>1, <2>2, <2>3
<1> HIDE DEF Begins
<1>4. ASSUME i \in WordStarts(D), i..(i + W) \subseteq D PROVE i + W \in WordStarts(D)
  <2>1. PICK g \in 1..i : Begins(g, i + W) /\ (i - g) % W = 0
    BY <1>0, <1>3, <1>4
  <2>2. i - g \in Nat /\ (i + W) - g = (i - g) + W /\ i + W \in i..(i + W)
    BY <1>0
  <2>3. ((i + W) - g) % W = 0
    BY <1>0, <2>1, <2>2, Multiples
  <2>4. i + W \in D
    BY <1>4, <2>2
  <2> QED
    BY <1>1, <2>1, <2>3, <2>4
<1>5. ASSUME NEW x \in 1..(W - 1), i \in WordStarts(D), i..(i + x) \subseteq D,
             i + x \in WordStarts(D)
      PROVE  FALSE
  <2>1. x \in Nat /\ x <= W
    BY <1>0
  <2>2. PICK g \in 1..i : (i - g) % W = 0 /\ \A h : Begins(h, i + x) => h = g
    BY <1>3, <1>5, <2>1
  <2>3. ((i + x) - g) % W = 0
    BY <1>1, <1>5, <2>2
  <2>4. i - g \in Nat /\ (i + x) - g = (i - g) + x
    BY <1>0
  <2>5. ((i - g) + x) % W # 0
    BY <1>0, <2>2, <2>4, Multiples
  <2> QED
    BY <2>3, <2>4, <2>5
<1> QED
  BY <1>2, <1>4, <1>5

\* There is one end of a word.
LEMMA WordEndIs ==
  ASSUME NEW D, NEW i \in Nat, NEW e \in (i + 1)..(i + WordDigits), i..(e - 1) \subseteq D,
         e = i + WordDigits \/ e \notin D
  PROVE  WordEnd(D, i) = e
<1> DEFINE Ends(x) == i..(x - 1) \subseteq D /\ (x = i + WordDigits \/ x \notin D)
           E == (i + 1)..(i + WordDigits)
<1>0. WordDigits \in Nat
  BY WriteAssumption DEF WriteAssumption
<1>1. Ends(e) /\ e \in E
  OBVIOUS
<1>2. ASSUME NEW x \in E, Ends(x) PROVE x = e
  <2>1. ~(x < e)
    <3> SUFFICES ASSUME x < e PROVE FALSE
      OBVIOUS
    <3>1. x \in i..(e - 1) /\ x # i + WordDigits
      BY <1>0
    <3> QED
      BY <1>2, <3>1
  <2>2. ~(e < x)
    <3> SUFFICES ASSUME e < x PROVE FALSE
      OBVIOUS
    <3>1. e \in i..(x - 1) /\ e # i + WordDigits
      BY <1>0
    <3> QED
      BY <1>2, <3>1
  <2> QED
    BY <1>0, <2>1, <2>2
<1>3. WordEnd(D, i) = CHOOSE x \in E : Ends(x)
  BY DEF WordEnd
<1> HIDE DEF E, Ends
<1> QED
  BY <1>1, <1>2, <1>3

\* The first colon of a line.
Labels(l) == \E i \in 1..Len(l) : l[i].kind = "colon"

LEMMA ColonIs ==
  ASSUME NEW l, Len(l) \in Nat
  PROVE  /\ Colon(l) \in 0..Len(l)
         /\ ~Labels(l) => Colon(l) = 0
         /\ \A c \in 1..Len(l) :
              l[c].kind = "colon" /\ (\A j \in 1..(c - 1) : l[j].kind # "colon") => Colon(l) = c
         /\ Labels(l) => /\ Colon(l) \in 1..Len(l) /\ l[Colon(l)].kind = "colon"
                         /\ \A j \in 1..(Colon(l) - 1) : l[j].kind # "colon"
<1> DEFINE C == {i \in 1..Len(l) : l[i].kind = "colon"}
<1>1. Colon(l) = IF C = {} THEN 0 ELSE CHOOSE i \in C : \A j \in C : i <= j
  BY DEF Colon
<1>2. C \subseteq Nat /\ C \subseteq 1..Len(l) /\ (Labels(l) <=> C # {})
  BY DEF Labels
<1>3. C # {} => \E i \in C : \A j \in C : i <= j
  <2> HIDE DEF C
  <2> QED
    BY <1>2, Least
<1>4. C # {} => Colon(l) \in C /\ \A j \in C : Colon(l) <= j
  <2> HIDE DEF C
  <2> QED
    BY <1>1, <1>3
<1>5. ASSUME NEW c \in C, \A j \in 1..(c - 1) : l[j].kind # "colon" PROVE Colon(l) = c
  <2>1. Colon(l) \in 1..Len(l) /\ l[Colon(l)].kind = "colon" /\ Colon(l) <= c
    BY <1>4
  <2> QED
    BY <1>5, <2>1
<1>6. C # {} => \A j \in 1..(Colon(l) - 1) : l[j].kind # "colon"
  <2> SUFFICES ASSUME C # {}, NEW j \in 1..(Colon(l) - 1), l[j].kind = "colon" PROVE FALSE
    OBVIOUS
  <2>1. Colon(l) \in 1..Len(l)
    BY <1>4
  <2>2. j \in C
    BY <2>1
  <2> QED
    BY <1>4, <2>1, <2>2
<1> QED
  <2>1. Colon(l) \in 0..Len(l) /\ (~Labels(l) => Colon(l) = 0)
    BY <1>1, <1>2, <1>4
  <2>2. Labels(l) => Colon(l) \in 1..Len(l) /\ l[Colon(l)].kind = "colon"
    BY <1>2, <1>4
  <2> HIDE DEF C
  <2>3. ASSUME NEW c \in 1..Len(l), l[c].kind = "colon" PROVE c \in C
    BY <2>3 DEF C
  <2> QED
    BY <1>2, <1>5, <1>6, <2>1, <2>2, <2>3

\* The words of line l that begin at q or behind.
Rest(l, q) == {j \in WordStarts(DigitsIn(l)) : j >= q}

\* The words ws are the first of those, in order.
FirstWords(l, q, ws) ==
  /\ Len(ws) <= Cardinality(Rest(l, q))
  /\ \A k \in 1..Len(ws) :
       \E i \in Rest(l, q) : /\ Cardinality({j \in Rest(l, q) : j <= i}) = k
                             /\ ws[k] = WordAt(l, i)

AllWords(l, q, ws) == FirstWords(l, q, ws) /\ Len(ws) = Cardinality(Rest(l, q))

\* The words of a line are finitely many.
LEMMA StartsFinite ==
  ASSUME NEW l, Len(l) \in Nat
  PROVE  /\ DigitsIn(l) \subseteq 1..Len(l) /\ DigitsIn(l) \subseteq Nat \ {0}
         /\ WordStarts(DigitsIn(l)) \subseteq DigitsIn(l)
         /\ \A q \in Nat : /\ Rest(l, q) \subseteq Nat /\ IsFiniteSet(Rest(l, q))
                            /\ Cardinality(Rest(l, q)) \in Nat
<1>1. Colon(l) \in Nat
  BY ColonIs
<1>2. DigitsIn(l) \subseteq 1..Len(l) /\ DigitsIn(l) \subseteq Nat \ {0}
  BY <1>1 DEF DigitsIn
<1>3. WordStarts(DigitsIn(l)) \subseteq DigitsIn(l)
  BY DEF WordStarts
<1>4. IsFiniteSet(1..Len(l))
  BY FS_Interval
<1>5. ASSUME NEW q \in Nat PROVE Rest(l, q) \subseteq 1..Len(l)
  BY <1>2, <1>3 DEF Rest
<1>6. ASSUME NEW q \in Nat
      PROVE  Rest(l, q) \subseteq Nat /\ IsFiniteSet(Rest(l, q)) /\ Cardinality(Rest(l, q)) \in Nat
  <2>1. Rest(l, q) \subseteq 1..Len(l)
    BY <1>5
  <2>2. IsFiniteSet(Rest(l, q))
    BY <1>4, <2>1, FS_Subset
  <2> QED
    BY <2>1, <2>2, FS_CardinalityType
<1> QED
  BY <1>2, <1>3, <1>6

\* A word at q, and those behind it at the places B: all are at A.
Precedes(q, A, B) ==
  /\ A = B \cup {q} /\ Cardinality(A) = Cardinality(B) + 1
  /\ Cardinality({j \in A : j <= q}) = 1
  /\ \A i \in B : Cardinality({j \in A : j <= i}) = Cardinality({j \in B : j <= i}) + 1

LEMMA WordBefore ==
  ASSUME NEW l, Len(l) \in Nat, NEW q \in WordStarts(DigitsIn(l)), NEW e \in Nat, q < e,
         \A j \in WordStarts(DigitsIn(l)) : ~(q < j /\ j < e)
  PROVE  Precedes(q, Rest(l, q), Rest(l, e))
<1> DEFINE S == WordStarts(DigitsIn(l))
           A == Rest(l, q)
           B == Rest(l, e)
<1>1. S \subseteq Nat /\ q \in Nat
  BY StartsFinite
<1>2. IsFiniteSet(B) /\ B \subseteq Nat
  BY StartsFinite
<1>3. A = B \cup {q} /\ q \notin B /\ \A i \in B : q < i
  <2>1. \A j \in S : j >= q <=> j >= e \/ j = q
    BY <1>1
  <2> HIDE DEF S
  <2> QED
    BY <1>1, <2>1 DEF Rest, S
<1> HIDE DEF S, A, B
<1>4. Cardinality(A) = Cardinality(B) + 1
  BY <1>2, <1>3, FS_AddElement
<1>5. Cardinality({j \in A : j <= q}) = 1
  <2>1. {j \in A : j <= q} = {q}
    <3>1. q \in A /\ q <= q /\ \A j \in A : j <= q => j = q
      BY <1>1, <1>2, <1>3
    <3> QED
      BY <3>1
  <2> QED
    BY <2>1, FS_Singleton
<1>6. ASSUME NEW i \in B PROVE Cardinality({j \in A : j <= i}) = Cardinality({j \in B : j <= i}) + 1
  <2> DEFINE X == {j \in B : j <= i}
  <2>1. {j \in A : j <= i} = X \cup {q} /\ q \notin X
    BY <1>1, <1>2, <1>3
  <2>2. IsFiniteSet(X)
    BY <1>2, FS_Subset
  <2> HIDE DEF X
  <2>3. Cardinality(X \cup {q}) = Cardinality(X) + 1
    BY <2>1, <2>2, FS_AddElement
  <2> QED
    BY <2>1, <2>3 DEF X
<1> QED
  BY <1>3, <1>4, <1>5, <1>6 DEF Precedes, A, B

LEMMA WordsBehind ==
  ASSUME NEW l, Len(l) \in Nat, NEW q \in WordStarts(DigitsIn(l)), NEW e \in Nat, q < e,
         \A j \in WordStarts(DigitsIn(l)) : ~(q < j /\ j < e),
         NEW ws, IsSeq(ws), FirstWords(l, e, ws),
         NEW ws2, IsSeq(ws2), Joined(<<WordAt(l, q)>>, ws, ws2)
  PROVE  FirstWords(l, q, ws2) /\ (AllWords(l, e, ws) => AllWords(l, q, ws2))
<1> DEFINE A == Rest(l, q)
           B == Rest(l, e)
           n == Len(ws)
           w == WordAt(l, q)
           a == <<w>>
<1>0. Precedes(q, A, B)
  BY WordBefore, Zenon
<1>1. /\ A = B \cup {q} /\ Cardinality(A) = Cardinality(B) + 1
      /\ Cardinality({j \in A : j <= q}) = 1
      /\ \A i \in B : Cardinality({j \in A : j <= i}) = Cardinality({j \in B : j <= i}) + 1
  BY <1>0, Zenon DEF Precedes
<1>2. /\ n <= Cardinality(B)
      /\ \A k \in 1..n : \E i \in B : Cardinality({j \in B : j <= i}) = k /\ ws[k] = WordAt(l, i)
  BY DEF FirstWords
<1>3. Cardinality(B) \in Nat /\ n \in Nat
  BY StartsFinite DEF IsSeq
<1>4. Len(a) = 1 /\ a[1] = w
  OBVIOUS
<1>5. /\ Len(ws2) = Len(a) + n
      /\ \A i \in 1..Len(a) : ws2[i] = a[i]
      /\ \A i \in 1..n : ws2[Len(a) + i] = ws[i]
  BY DEF Joined
<1> HIDE DEF A, B, n, w, a
<1>6. Len(ws2) = n + 1 /\ ws2[1] = w /\ \A i \in 1..n : ws2[1 + i] = ws[i]
  BY <1>3, <1>4, <1>5
<1>7. ASSUME NEW k \in 1..(n + 1)
      PROVE  \E i \in A : Cardinality({j \in A : j <= i}) = k /\ ws2[k] = WordAt(l, i)
  <2>1. CASE k = 1
    BY <1>1, <1>6, <2>1 DEF w
  <2>2. CASE k # 1
    <3>1. k - 1 \in 1..n /\ 1 + (k - 1) = k /\ (k - 1) + 1 = k
      BY <1>3, <2>2
    <3>2. PICK i \in B : Cardinality({j \in B : j <= i}) = k - 1 /\ ws[k - 1] = WordAt(l, i)
      BY <1>2, <3>1
    <3>3. ws2[k] = WordAt(l, i)
      BY <1>6, <3>1, <3>2
    <3>4. Cardinality({j \in A : j <= i}) = k
      BY <1>1, <3>1, <3>2
    <3> QED
      BY <1>1, <3>2, <3>3, <3>4
  <2> QED
    BY <2>1, <2>2
<1>8. FirstWords(l, q, ws2)
  <2>1. Len(ws2) <= Cardinality(A)
    BY <1>1, <1>2, <1>3, <1>6
  <2> QED
    BY <1>6, <1>7, <2>1 DEF FirstWords, A
<1>9. n = Cardinality(B) => Len(ws2) = Cardinality(A)
  BY <1>1, <1>3, <1>6
<1> QED
  BY <1>8, <1>9 DEF AllWords, A, B, n

\* All words of a line, in order, are what the format says.
LEMMA LineWordsAre ==
  ASSUME NEW l, Len(l) \in Nat, NEW q \in Nat, Rest(l, q) = WordStarts(DigitsIn(l)),
         NEW ws, IsSeq(ws), FirstWords(l, q, ws)
  PROVE  /\ IsSeq(LineWords(l)) /\ Len(ws) <= Len(LineWords(l))
         /\ \A k \in 1..Len(ws) : ws[k] = LineWords(l)[k]
         /\ AllWords(l, q, ws) => ws = LineWords(l)
<1> DEFINE S == WordStarts(DigitsIn(l))
           upto(i) == Cardinality({j \in S : j <= i})
           nth(k) == CHOOSE i \in S : upto(i) = k
           N == Cardinality(S)
           r == LineWords(l)
<1>1. r = [k \in 1..N |-> WordAt(l, nth(k))]
  BY DEF LineWords
<1>2. N \in Nat /\ IsFiniteSet(S) /\ S \subseteq Nat
  <2>1. IsFiniteSet(Rest(l, q)) /\ Cardinality(Rest(l, q)) \in Nat /\ Rest(l, q) \subseteq Nat
    BY StartsFinite
  <2> QED
    BY <2>1
<1>3. Len(ws) \in Nat /\ Len(ws) <= N
  BY DEF IsSeq, FirstWords
<1>4. \A k \in 1..Len(ws) : \E i \in S : upto(i) = k /\ ws[k] = WordAt(l, i)
  BY DEF FirstWords
<1> HIDE DEF S
<1>5. ASSUME NEW i \in S, NEW j \in S, i < j PROVE upto(i) # upto(j)
  <2> DEFINE X == {y \in S : y <= i}
             Y == {y \in S : y <= j}
  <2>1. X \cup {j} \subseteq Y /\ j \notin X
    <3>1. i \in Nat /\ j \in Nat /\ \A y \in S : y <= i => y <= j
      BY <1>2, <1>5
    <3>2. j <= j /\ ~(j <= i)
      BY <1>5, <3>1
    <3> QED
      BY <3>1, <3>2
  <2>2. IsFiniteSet(X) /\ IsFiniteSet(Y)
    BY <1>2, FS_Subset
  <2> HIDE DEF X, Y
  <2>3. Cardinality(X \cup {j}) = Cardinality(X) + 1 /\ IsFiniteSet(X \cup {j})
    BY <2>1, <2>2, FS_AddElement
  <2>4. Cardinality(X \cup {j}) <= Cardinality(Y)
    BY <2>1, <2>2, FS_Subset
  <2>5. Cardinality(X) \in Nat /\ Cardinality(Y) \in Nat
    BY <2>2, FS_CardinalityType
  <2>6. Cardinality(X) # Cardinality(Y)
    BY <2>3, <2>4, <2>5
  <2> QED
    BY <2>6 DEF X, Y
<1>6. ASSUME NEW i \in S, NEW j \in S, upto(i) = upto(j) PROVE i = j
  <2>1. ~(i < j) /\ ~(j < i)
    <3> HIDE DEF upto
    <3> QED
      BY <1>5, <1>6
  <2> QED
    BY <1>2, <2>1
<1> HIDE DEF upto
<1>7. ASSUME NEW k \in 1..Len(ws) PROVE k \in 1..N /\ ws[k] = WordAt(l, nth(k))
  <2>1. PICK i \in S : upto(i) = k /\ ws[k] = WordAt(l, i)
    BY <1>4
  <2>2. nth(k) = i
    BY <1>6, <2>1
  <2> QED
    <3>1. k \in 1..N
      BY <1>2, <1>3
    <3> HIDE DEF nth
    <3> QED
      BY <2>1, <2>2, <3>1
<1> HIDE DEF nth
<1>8. \A k \in 1..N : r[k] = WordAt(l, nth(k))
  BY <1>1
<1>9. r = [k \in 1..N |-> r[k]]
  BY <1>1
<1>10. IsSeq(r) /\ Len(r) = N
  BY <1>2, <1>9, FunctionIsSeq
<1>11. \A k \in 1..Len(ws) : ws[k] = r[k]
  BY <1>7, <1>8
<1>12. ASSUME AllWords(l, q, ws) PROVE ws = r
  <2>1. Len(ws) = N
    BY <1>12 DEF AllWords, S, N
  <2>2. ws = [k \in 1..Len(ws) |-> ws[k]]
    BY DEF IsSeq
  <2>3. [k \in 1..N |-> ws[k]] = [k \in 1..N |-> r[k]]
    BY <1>11, <2>1
  <2> QED
    BY <1>9, <2>1, <2>2, <2>3
<1> QED
  BY <1>3, <1>10, <1>11, <1>12

\* The buffer holds line l from behind place o on, and a newline.  Between the
\* label and o there is nothing but space.
InBuffer(l, o, buf) ==
  /\ Len(l) \in Nat /\ o \in Nat /\ o <= Len(l) /\ Colon(l) <= o
  /\ Len(buf) = (Len(l) - o) + 1 /\ buf[Len(buf)].kind = "newline"
  /\ \A i \in 1..(Len(l) - o) : buf[i] = l[o + i]
  /\ \A i \in 1..Len(l) : l[i].kind # "newline"
  /\ \A i \in (Colon(l) + 1)..o : IsSpace(l[i])

\* The loop is at place q of the line: not inside a word.
Between(l, q) ==
  /\ \A j \in (Colon(l) + 1)..(q - 1) : IsSpace(l[j]) \/ IsDigit(l[j])
  /\ q \in DigitsIn(l) => q \in WordStarts(DigitsIn(l))

\* A character of the buffer that is no newline.
LEMMA CharOfLine ==
  ASSUME NEW l, NEW o, NEW buf, InBuffer(l, o, buf), NEW p \in 1..Len(buf)
  PROVE  /\ Len(l) \in Nat /\ o \in Nat /\ Len(buf) = (Len(l) - o) + 1 /\ Len(buf) \in Nat
         /\ Colon(l) \in Nat /\ Colon(l) <= o /\ Terminated(buf)
         /\ IsDigit(buf[p]) \/ buf[p].kind = "space" => p < Len(buf)
         /\ p < Len(buf) => /\ o + p \in 1..Len(l) /\ o + p \in (Colon(l) + 1)..Len(l)
                            /\ l[o + p] = buf[p] /\ l[o + p].kind # "newline"
<1>0. Len(l) \in Nat /\ o \in Nat /\ Len(buf) = (Len(l) - o) + 1 /\ Len(buf) \in Nat /\ Colon(l) <= o
  BY DEF InBuffer
<1>1. Colon(l) \in Nat
  BY <1>0, ColonIs
<1>2. Terminated(buf) /\ (IsDigit(buf[p]) \/ buf[p].kind = "space" => p < Len(buf))
  BY DEF InBuffer, Terminated, IsDigit
<1>3. ASSUME p < Len(buf)
      PROVE  /\ o + p \in 1..Len(l) /\ o + p \in (Colon(l) + 1)..Len(l)
             /\ l[o + p] = buf[p] /\ l[o + p].kind # "newline"
  <2>1. p \in 1..(Len(l) - o) /\ o + p \in 1..Len(l) /\ o + p \in (Colon(l) + 1)..Len(l)
    BY <1>1, <1>3 DEF InBuffer
  <2> QED
    BY <2>1 DEF InBuffer
<1> QED
  BY <1>0, <1>1, <1>2, <1>3

\* A space: no word begins there.
LEMMA SkipsSpace ==
  ASSUME NEW l, NEW o, NEW buf, InBuffer(l, o, buf), NEW p \in 1..Len(buf),
         Between(l, o + p), buf[p].kind = "space"
  PROVE  /\ p + 1 \in (p + 1)..Len(buf) /\ Between(l, o + (p + 1))
         /\ Rest(l, o + p) = Rest(l, o + (p + 1))
<1> DEFINE D == DigitsIn(l)
           q == o + p
<1>1. /\ p < Len(buf) /\ q \in 1..Len(l) /\ q \in (Colon(l) + 1)..Len(l) /\ Colon(l) \in Nat
      /\ l[q] = buf[p] /\ Len(l) \in Nat
  BY CharOfLine DEF IsDigit
<1>2. Len(buf) \in Nat /\ o + (p + 1) = q + 1 /\ o \in Nat /\ q \in Nat
  BY DEF InBuffer
<1> HIDE DEF q
<1>3. q \notin D
  BY <1>1 DEF DigitsIn, IsDigit
<1>4. D \subseteq Nat \ {0} /\ WordStarts(D) \subseteq D
  BY <1>1, StartsFinite
<1>5. \A j \in (Colon(l) + 1)..((q + 1) - 1) : IsSpace(l[j]) \/ IsDigit(l[j])
  <2> SUFFICES ASSUME NEW j \in (Colon(l) + 1)..q PROVE IsSpace(l[j]) \/ IsDigit(l[j])
    BY <1>2
  <2>1. CASE j = q
    BY <1>1, <2>1 DEF IsSpace
  <2>2. CASE j # q
    <3>1. j \in (Colon(l) + 1)..(q - 1)
      BY <1>1, <1>2, <2>2
    <3> QED
      BY <3>1 DEF Between, q
  <2> QED
    BY <2>1, <2>2
<1>6. q + 1 \in D => q + 1 \in WordStarts(D)
  <2>1. (q + 1) - 1 = q
    BY <1>2
  <2> HIDE DEF D
  <2> QED
    BY <1>3, <1>4, <2>1, StartsOfWords
<1>7. Between(l, q + 1)
  BY <1>5, <1>6 DEF Between
<1>8. Rest(l, q) = Rest(l, q + 1)
  <2> DEFINE S == WordStarts(D)
  <2>1. \A j \in S : j >= q <=> j >= q + 1
    BY <1>2, <1>3, <1>4
  <2> HIDE DEF S
  <2>2. {j \in S : j >= q} = {j \in S : j >= q + 1}
    BY <2>1
  <2> QED
    BY <2>2 DEF Rest, S
<1> QED
  BY <1>1, <1>2, <1>7, <1>8 DEF q

\* Neither space nor digit: no word follows.
LEMMA StopsBehind ==
  ASSUME NEW l, NEW o, NEW buf, InBuffer(l, o, buf), NEW p \in 1..Len(buf),
         buf[p].kind # "space", ~IsDigit(buf[p])
  PROVE  Rest(l, o + p) = {}
<1> DEFINE D == DigitsIn(l)
<1>0. Len(l) \in Nat /\ o \in Nat /\ Len(buf) \in Nat /\ Len(buf) = (Len(l) - o) + 1 /\ Colon(l) \in Nat
  BY CharOfLine
<1>1. SUFFICES ASSUME NEW j \in D, j >= o + p PROVE FALSE
  BY <1>0, StartsFinite DEF Rest
<1>2. j \in 1..Len(l) /\ \A i \in (Colon(l) + 1)..j : IsSpace(l[i]) \/ IsDigit(l[i])
  BY <1>0 DEF DigitsIn
<1>3. p < Len(buf)
  BY <1>0, <1>1, <1>2
<1>4. o + p \in (Colon(l) + 1)..Len(l) /\ l[o + p] = buf[p] /\ l[o + p].kind # "newline"
  BY <1>3, CharOfLine
<1>5. o + p \in (Colon(l) + 1)..j
  BY <1>0, <1>1, <1>2, <1>4
<1>6. IsSpace(buf[p]) \/ IsDigit(buf[p])
  BY <1>2, <1>4, <1>5
<1> QED
  BY <1>4, <1>6 DEF IsSpace

\* A digit: a word begins there, and hex_to_u32 takes all of it and no more.
LEMMA TakesWord ==
  ASSUME NEW l, NEW o, NEW buf, InBuffer(l, o, buf), NEW p \in 1..Len(buf),
         Between(l, o + p), IsDigit(buf[p])
  PROVE  LET e == HexEnd(buf, p)
         IN /\ e \in (p + 1)..Len(buf) /\ Between(l, o + e)
            /\ o + p \in WordStarts(DigitsIn(l))
            /\ \A j \in WordStarts(DigitsIn(l)) : ~(o + p < j /\ j < o + e)
            /\ Digits(buf, p, e) = WordAt(l, o + p)
<1> DEFINE D == DigitsIn(l)
           S == WordStarts(D)
           e == HexEnd(buf, p)
           q == o + p
           x == o + e
           n == Len(buf)
<1>0. /\ Len(l) \in Nat /\ o \in Nat /\ n \in Nat /\ n = (Len(l) - o) + 1 /\ Colon(l) \in Nat
      /\ WordDigits \in Nat /\ WordDigits > 0 /\ Colon(l) <= o
  BY CharOfLine, WriteAssumption DEF WriteAssumption
<1>1. n > 0 /\ ~IsDigit(buf[n])
  BY <1>0 DEF InBuffer, IsDigit
<1>2. /\ e \in (p + 1)..n /\ e <= p + WordDigits
      /\ \A i \in p..(e - 1) : IsDigit(buf[i])
      /\ e = p + WordDigits \/ ~IsDigit(buf[e])
  BY <1>0, <1>1, HexStops
<1> HIDE DEF e
<1>3. /\ q \in Nat /\ x \in Nat /\ x \in (q + 1)..(q + WordDigits) /\ x - q = e - p
      /\ x <= Len(l) + 1 /\ (x = q + WordDigits <=> e = p + WordDigits)
  BY <1>0, <1>2
<1>4. ASSUME NEW j \in q..(x - 1)
      PROVE  /\ j - o \in p..(e - 1) /\ j - o \in 1..n /\ j - o < n /\ j = o + (j - o)
             /\ j \in (Colon(l) + 1)..Len(l) /\ l[j] = buf[j - o] /\ IsDigit(l[j])
  <2>1. j - o \in p..(e - 1) /\ j - o \in 1..n /\ j - o < n /\ j = o + (j - o)
    BY <1>0, <1>2
  <2>2. o + (j - o) \in (Colon(l) + 1)..Len(l) /\ l[o + (j - o)] = buf[j - o]
    <3> DEFINE i == j - o
    <3>1. i \in 1..Len(buf) /\ i < Len(buf)
      BY <2>1
    <3> HIDE DEF i
    <3>2. o + i \in (Colon(l) + 1)..Len(l) /\ l[o + i] = buf[i]
      BY <3>1, CharOfLine
    <3> QED
      BY <3>2 DEF i
  <2> QED
    BY <1>2, <2>1, <2>2
<1> HIDE DEF q, x, n
<1>5. \A j \in (Colon(l) + 1)..(x - 1) : IsSpace(l[j]) \/ IsDigit(l[j])
  <2> SUFFICES ASSUME NEW j \in (Colon(l) + 1)..(x - 1) PROVE IsSpace(l[j]) \/ IsDigit(l[j])
    OBVIOUS
  <2>1. CASE j < q
    <3>1. j \in (Colon(l) + 1)..(q - 1)
      BY <1>0, <1>3, <2>1
    <3> QED
      BY <3>1 DEF Between, q
  <2>2. CASE j >= q
    <3>1. j \in q..(x - 1)
      BY <1>0, <1>3, <2>2
    <3> QED
      BY <1>4, <3>1
  <2> QED
    BY <1>0, <1>3, <2>1, <2>2
<1>6. q..(x - 1) \subseteq D
  <2> SUFFICES ASSUME NEW j \in q..(x - 1) PROVE j \in D
    OBVIOUS
  <2>1. j \in (Colon(l) + 1)..Len(l) /\ IsDigit(l[j])
    BY <1>4
  <2>2. \A i \in (Colon(l) + 1)..j : i \in (Colon(l) + 1)..(x - 1)
    BY <1>0, <1>3
  <2> QED
    BY <1>5, <2>1, <2>2 DEF DigitsIn
<1>7. q \in D /\ q \in S
  <2>1. q \in q..(x - 1)
    BY <1>3
  <2>2. q \in D
    BY <1>6, <2>1
  <2> QED
    BY <2>2 DEF Between, q
<1>8. D \subseteq Nat \ {0} /\ S \subseteq D /\ D \subseteq 1..Len(l)
  BY <1>0, StartsFinite
<1>9. x \in D => IsDigit(buf[e])
  <2> SUFFICES ASSUME x \in D PROVE IsDigit(buf[e])
    OBVIOUS
  <2>1. IsDigit(l[x]) /\ x \in 1..Len(l)
    BY <1>8 DEF DigitsIn
  <2>2. e < n /\ e \in 1..n
    <3>1. e \in (p + 1)..n /\ o + e <= Len(l)
      BY <1>2, <2>1 DEF x
    <3> QED
      BY <1>0, <3>1
  <2>3. l[o + e] = buf[e]
    BY <2>2, CharOfLine DEF n
  <2> QED
    BY <2>1, <2>3 DEF x
<1>10. x = q + WordDigits \/ x \notin D
  BY <1>2, <1>3, <1>9
<1> HIDE DEF D
<1>11. WordEnd(D, q) = x
  BY <1>3, <1>6, <1>10, WordEndIs
<1>12. x \in D => x \in S
  <2> SUFFICES ASSUME x \in D PROVE x \in S
    OBVIOUS
  <2>1. x = q + WordDigits
    BY <1>10
  <2>2. q..(q + WordDigits) \subseteq D
    <3> SUFFICES ASSUME NEW j \in q..(q + WordDigits) PROVE j \in D
      OBVIOUS
    <3>1. j = x \/ j \in q..(x - 1)
      BY <1>0, <1>3, <2>1
    <3> QED
      BY <1>6, <3>1
  <2> QED
    BY <1>7, <1>8, <2>1, <2>2, StartsOfWords
<1>13. ASSUME NEW j \in S, q < j, j < x PROVE FALSE
  <2>1. j \in Nat
    BY <1>8
  <2>2. j - q \in 1..(WordDigits - 1) /\ q + (j - q) = j
    BY <1>0, <1>3, <1>13, <2>1
  <2>3. q..j \subseteq D
    BY <1>3, <1>6, <1>13, <2>1
  <2> QED
    <3>1. q + (j - q) \notin S
      BY <1>7, <1>8, <2>2, <2>3, StartsOfWords
    <3> QED
      BY <1>13, <2>2, <3>1
<1>14. Digits(buf, p, e) = WordAt(l, q)
  <2>1. WordAt(l, q) = [k \in 1..(x - q) |-> l[q + k - 1].id]
    BY <1>11 DEF WordAt, D
  <2>2. Digits(buf, p, e) = [k \in 1..(x - q) |-> buf[p + k - 1].id]
    BY <1>3 DEF Digits
  <2>3. ASSUME NEW k \in 1..(x - q) PROVE l[q + k - 1] = buf[p + k - 1]
    <3>1. q + k - 1 \in q..(x - 1) /\ (q + k - 1) - o = p + k - 1
      BY <1>0, <1>3 DEF q
    <3> QED
      BY <1>4, <3>1
  <2> QED
    BY <2>1, <2>2, <2>3
<1>15. Between(l, x)
  BY <1>5, <1>12 DEF Between, D
<1> QED
  BY <1>2, <1>7, <1>13, <1>14, <1>15 DEF n, q, x, D, e

\* What the loop has done when it began at place q.
ReadsOn(l, q, r) ==
  FirstWords(l, q, r.words) /\ (~r.full => AllWords(l, q, r.words))

\* One round of the loop.
LEMMA ReadsOnFrom ==
  ASSUME NEW l, NEW o, NEW buf, InBuffer(l, o, buf), NEW p \in 1..Len(buf),
         Between(l, o + p), NEW f, Parses(buf, f), NEW left \in Int,
         \A x \in (p + 1)..Len(buf) : Between(l, o + x) => \A y \in Int : ReadsOn(l, o + x, f[x][y])
  PROVE  ReadsOn(l, o + p, f[p][left])
<1>0. /\ Len(l) \in Nat /\ o \in Nat /\ Terminated(buf) /\ Len(buf) \in Nat
  BY CharOfLine
<1>1. f[p][left] = ParseFrom(buf, f, p, left)
  BY <1>0, ParseIs
<1>2. Len(<<>>) = 0 /\ 1..0 = {}
  OBVIOUS
<1>3. o + p \in Nat /\ Cardinality(Rest(l, o + p)) \in Nat
  <2>1. o + p \in Nat
    BY <1>0
  <2> QED
    BY <1>0, <2>1, StartsFinite
<1>4. FirstWords(l, o + p, <<>>)
  BY <1>2, <1>3 DEF FirstWords
<1>5. CASE buf[p].kind = "space"
  <2>1. /\ p + 1 \in (p + 1)..Len(buf) /\ Between(l, o + (p + 1))
        /\ Rest(l, o + p) = Rest(l, o + (p + 1))
    BY <1>5, SkipsSpace
  <2>2. f[p][left] = f[p + 1][left]
    BY <1>1, <1>5 DEF ParseFrom, IsDigit
  <2>3. ReadsOn(l, o + (p + 1), f[p][left])
    BY <2>1, <2>2
  <2> QED
    BY <2>1, <2>3 DEF ReadsOn, FirstWords, AllWords
<1>6. CASE buf[p].kind # "space" /\ ~IsDigit(buf[p])
  <2>1. Rest(l, o + p) = {}
    BY <1>6, StopsBehind
  <2>2. Cardinality({}) = 0
    BY FS_EmptySet
  <2>3. f[p][left] = Stop(p, left, FALSE)
    BY <1>1, <1>6 DEF ParseFrom
  <2>4. f[p][left].words = <<>>
    BY <2>3 DEF Stop
  <2>5. AllWords(l, o + p, <<>>)
    BY <1>2, <1>4, <2>1, <2>2 DEF AllWords
  <2> QED
    BY <1>4, <2>4, <2>5 DEF ReadsOn
<1>7. CASE IsDigit(buf[p]) /\ NoRoom(left)
  <2>1. f[p][left] = Stop(p, left, TRUE)
    BY <1>1, <1>7 DEF ParseFrom, IsDigit
  <2>2. f[p][left].words = <<>> /\ f[p][left].full
    BY <2>1 DEF Stop
  <2> QED
    BY <1>4, <2>2 DEF ReadsOn
<1>8. CASE IsDigit(buf[p]) /\ ~NoRoom(left)
  <2> DEFINE e == HexEnd(buf, p)
             y == IF left > 0 THEN left - WordSize ELSE left
             r == f[e][y]
             w == Digits(buf, p, e)
             ws == <<w>> \o r.words
  <2>1. /\ e \in (p + 1)..Len(buf) /\ Between(l, o + e)
        /\ o + p \in WordStarts(DigitsIn(l))
        /\ \A j \in WordStarts(DigitsIn(l)) : ~(o + p < j /\ j < o + e)
        /\ w = WordAt(l, o + p)
    BY <1>8, TakesWord
  <2>2. y \in Int
    BY DEF WordSize
  <2>3. f[p][left] = After(buf, p, r)
    BY <1>1, <1>8 DEF ParseFrom, IsDigit
  <2>4. f[p][left] = [r EXCEPT !.words = ws]
    BY <2>3 DEF After
  <2> HIDE DEF e, y
  <2>5. e \in 1..Len(buf) /\ o + e \in Nat /\ o + p < o + e
    BY <1>0, <2>1
  <2>6. Parsed(buf, y, r)
    BY <1>0, <2>2, <2>5, ParseIs
  <2>7. ReadsOn(l, o + e, r)
    BY <2>1, <2>2
  <2>8. r \in [words : Seq(WordsIn(buf)), full : BOOLEAN, at : 1..Len(buf), left : Int]
    BY <2>6 DEF Parsed
  <2> HIDE DEF r, w
  <2>9. r.words \in Seq(WordsIn(buf))
    BY <2>8
  <2>10. IsSeq(r.words)
    BY <2>9, SeqIs
  <2>11. IsSeq(<<w>>)
    <3>1. <<w>> \in Seq({w})
      OBVIOUS
    <3> QED
      BY <3>1, SeqIs
  <2>12. Joined(<<w>>, r.words, ws)
    BY <2>10, <2>11, ConcatIsSeq
  <2> HIDE DEF ws
  <2>13. f[p][left].words = ws /\ (f[p][left].full <=> r.full)
    BY <2>4, <2>8
  <2>14. IsSeq(ws)
    BY <2>12 DEF Joined
  <2>15. FirstWords(l, o + e, r.words)
    BY <2>7 DEF ReadsOn
  <2>16. Joined(<<WordAt(l, o + p)>>, r.words, ws)
    BY <2>1, <2>12
  <2>17. FirstWords(l, o + p, ws) /\ (AllWords(l, o + e, r.words) => AllWords(l, o + p, ws))
    BY <1>0, <2>1, <2>5, <2>10, <2>14, <2>15, <2>16, WordsBehind
  <2> QED
    BY <2>7, <2>13, <2>17 DEF ReadsOn
<1> QED
  BY <1>5, <1>6, <1>7, <1>8 DEF IsDigit

\* The loop writes the words of the line as the documented format reads it; if it
\* gives up, the first of them.
LEMMA LoopReadsLine ==
  ASSUME NEW l, NEW o, NEW buf, InBuffer(l, o, buf), NEW left \in Int
  PROVE  LET ws == ProcessLine(buf, left).words
         IN /\ IsSeq(ws) /\ IsSeq(LineWords(l)) /\ Len(ws) <= Len(LineWords(l))
            /\ \A k \in 1..Len(ws) : ws[k] = LineWords(l)[k]
            /\ ~ProcessLine(buf, left).full => ws = LineWords(l)
<1> DEFINE f == CHOOSE f : Parses(buf, f)
           n == Len(buf)
           Good(p) == Between(l, o + p) => \A y \in Int : ReadsOn(l, o + p, f[p][y])
           T == {j \in 0..(n - 1) : ~Good(n - j)}
           r == ProcessLine(buf, left)
<1>0. n \in Nat /\ n > 0
  BY DEF InBuffer
<1>1. 1 \in 1..n
  BY <1>0
<1>2. /\ Len(l) \in Nat /\ o \in Nat /\ Terminated(buf) /\ Colon(l) \in Nat /\ Colon(l) <= o
  BY <1>1, CharOfLine
<1>3. Parses(buf, f)
  BY <1>2, ParserExists
<1>4. r = f[1][left]
  BY ProcessLineIs
<1> HIDE DEF f
<1>5. ASSUME NEW p \in 1..n, \A x \in (p + 1)..n : Good(x) PROVE Good(p)
  BY <1>3, <1>5, ReadsOnFrom
<1> HIDE DEF Good
<1>6. T = {}
  <2> SUFFICES ASSUME T # {} PROVE FALSE
    OBVIOUS
  <2>1. T \subseteq Nat
    BY <1>0
  <2>2. PICK j \in T : \A y \in T : j <= y
    <3> HIDE DEF T
    <3> QED
      BY <2>1, Least
  <2>3. j \in 0..(n - 1) /\ ~Good(n - j)
    OBVIOUS
  <2>4. ASSUME NEW x \in (n - j + 1)..n PROVE Good(x)
    <3>1. n - x \in 0..(n - 1) /\ n - x < j /\ n - (n - x) = x /\ n - x \in Nat
      BY <1>0, <2>3
    <3>2. n - x \notin T
      <4> HIDE DEF T
      <4> QED
        BY <2>2, <2>3, <3>1
    <3> QED
      BY <3>1, <3>2
  <2>5. n - j \in 1..n
    BY <1>0, <2>3
  <2> QED
    BY <1>5, <2>3, <2>4, <2>5
<1>7. Good(1)
  <2>1. n - 1 \in 0..(n - 1) /\ n - (n - 1) = 1
    BY <1>0
  <2> QED
    BY <1>6, <2>1
<1>8. \A j \in (Colon(l) + 1)..o : IsSpace(l[j]) /\ ~IsDigit(l[j])
  BY DEF InBuffer, IsSpace, IsDigit
<1>9. \A j \in DigitsIn(l) : j >= o + 1
  <2> SUFFICES ASSUME NEW j \in DigitsIn(l), j <= o PROVE FALSE
    BY <1>2, StartsFinite
  <2>1. j \in (Colon(l) + 1)..Len(l) /\ IsDigit(l[j])
    BY DEF DigitsIn
  <2>2. j \in (Colon(l) + 1)..o
    BY <1>2, <2>1
  <2> QED
    BY <1>8, <2>1, <2>2
<1>10. Between(l, o + 1)
  <2>1. (o + 1) - 1 = o /\ o \notin DigitsIn(l) /\ DigitsIn(l) \subseteq Nat \ {0}
    BY <1>2, <1>9, StartsFinite
  <2>2. o + 1 \in DigitsIn(l) => o + 1 \in WordStarts(DigitsIn(l))
    BY <2>1, StartsOfWords
  <2> QED
    BY <1>8, <2>1, <2>2 DEF Between
<1>11. Rest(l, o + 1) = WordStarts(DigitsIn(l)) /\ o + 1 \in Nat
  BY <1>2, <1>9, StartsFinite DEF Rest
<1>12. ReadsOn(l, o + 1, r)
  BY <1>4, <1>7, <1>10 DEF Good
<1>13. Parsed(buf, left, r)
  BY <1>2, ParseResult
<1> HIDE DEF r
<1>14. r.words \in Seq(WordsIn(buf))
  BY <1>13 DEF Parsed
<1>15. IsSeq(r.words)
  BY <1>14, SeqIs
<1>16. FirstWords(l, o + 1, r.words) /\ (~r.full => AllWords(l, o + 1, r.words))
  BY <1>12 DEF ReadsOn
<1>17. /\ IsSeq(LineWords(l)) /\ Len(r.words) <= Len(LineWords(l))
       /\ \A k \in 1..Len(r.words) : r.words[k] = LineWords(l)[k]
       /\ AllWords(l, o + 1, r.words) => r.words = LineWords(l)
  BY <1>2, <1>11, <1>15, <1>16, LineWordsAre
<1> QED
  BY <1>15, <1>16, <1>17 DEF r

(***************************************************************************)
(* The invariant of labelled lines: line_buf holds what follows the label of *)
(* the line under way, and the words stored are those of the lines before.  *)
(***************************************************************************)
\* The line so far: its label, or what line_buf has of it behind the label.
LineSoFar ==
  /\ u32 = 0 => ~Labels(line)
  /\ u32 # 0 =>
       /\ plb = lidx /\ Labels(line) /\ Colon(line) + lidx <= Len(line)
       /\ \A i \in (Colon(line) + 1)..(Len(line) - lidx) : IsSpace(line[i])
       /\ \A i \in 1..lidx : line_buf[i] = line[(Len(line) - lidx) + i]

\* The words stored are those of the lines that are complete.
WordsOfLines ==
  ~req.binary =>
    IsSeq(stored) /\ IF status = "failed" THEN IsPrefix(Words, expect) ELSE Words = expect

LinesInv ==
  /\ \A i \in 1..Len(line) : line[i].kind # "newline"
  /\ IsSeq(expect) /\ (status = "idle" => expect = <<>>)
  /\ Writing("write_ascii") => LineSoFar
  /\ WordsOfLines

LEMMA SameSeq ==
  ASSUME NEW s, IsSeq(s), NEW t, IsSeq(t), Len(s) = Len(t), \A k \in 1..Len(s) : s[k] = t[k]
  PROVE  s = t
<1>1. s = [k \in 1..Len(s) |-> s[k]] /\ t = [k \in 1..Len(t) |-> t[k]]
  BY DEF IsSeq
<1>2. [k \in 1..Len(s) |-> s[k]] = [k \in 1..Len(s) |-> t[k]]
  OBVIOUS
<1> QED
  BY <1>1, <1>2

\* The label of a line that grows.
LEMMA LabelOfLonger ==
  ASSUME NEW l, IsSeq(l), NEW c
  PROVE  LET m == Append(l, c)
         IN /\ Labels(l) => Labels(m) /\ Colon(m) = Colon(l) /\ Colon(l) \in 1..Len(l)
            /\ ~Labels(l) /\ c.kind # "colon" => ~Labels(m)
            /\ ~Labels(l) /\ c.kind = "colon" => Labels(m) /\ Colon(m) = Len(l) + 1
<1> DEFINE m == Append(l, c)
           n == Len(l)
<1>1. IsSeq(m) /\ n \in Nat /\ Len(m) = n + 1 /\ m[n + 1] = c /\ \A i \in 1..n : m[i] = l[i]
  BY AppendIsSeq
<1> HIDE DEF m
<1>2. Len(m) \in Nat
  BY <1>1
<1>3. ASSUME Labels(l) PROVE Labels(m) /\ Colon(m) = Colon(l) /\ Colon(l) \in 1..n
  <2> DEFINE d == Colon(l)
  <2>1. d \in 1..n /\ l[d].kind = "colon" /\ \A j \in 1..(d - 1) : l[j].kind # "colon"
    BY <1>1, <1>3, ColonIs
  <2> HIDE DEF d
  <2>2. d \in 1..Len(m) /\ m[d].kind = "colon" /\ \A j \in 1..(d - 1) : m[j].kind # "colon"
    BY <1>1, <2>1
  <2>3. Labels(m) /\ Colon(m) = d
    BY <1>2, <2>2, ColonIs DEF Labels
  <2> QED
    BY <2>1, <2>3 DEF d
<1>4. ASSUME ~Labels(l), c.kind # "colon" PROVE ~Labels(m)
  <2> SUFFICES ASSUME NEW i \in 1..(n + 1) PROVE m[i].kind # "colon"
    BY <1>1 DEF Labels
  <2>1. i = n + 1 \/ i \in 1..n
    BY <1>1
  <2> QED
    BY <1>1, <1>4, <2>1 DEF Labels
<1>5. ASSUME ~Labels(l), c.kind = "colon" PROVE Labels(m) /\ Colon(m) = n + 1
  <2>1. /\ n + 1 \in 1..Len(m) /\ m[n + 1].kind = "colon"
        /\ \A j \in 1..((n + 1) - 1) : m[j].kind # "colon"
    BY <1>1, <1>5 DEF Labels
  <2> QED
    BY <1>2, <2>1, ColonIs DEF Labels
<1> QED
  BY <1>3, <1>4, <1>5 DEF m

\* What the writer knows of a line when a character comes.
LEMMA LineIs ==
  ASSUME WriteInv, LinesInv, Writing("write_ascii")
  PROVE  /\ IsSeq(line) /\ IsSeq(line_buf) /\ Len(line) \in Nat /\ nleft \in Int
         /\ lidx \in Nat /\ plb \in Nat /\ plb <= Len(line_buf) /\ LineSoFar
         /\ \A i \in 1..Len(line) : line[i].kind # "newline"
<1>1. IsSeq(line) /\ IsSeq(line_buf) /\ nleft \in Int /\ lidx \in Nat /\ plb \in Nat /\ plb <= Len(line_buf)
  BY DEF WriteInv, AsciiText, Writing
<1>2. Len(line) \in Nat
  BY <1>1 DEF IsSeq
<1> QED
  BY <1>1, <1>2 DEF LinesInv

\* A space or a colon that is not kept.
LEMMA SkipCharLine ==
  ASSUME WriteInv, LinesInv, NEW c, SkipChar(c), c.kind # "newline"
  PROVE  LineSoFar' /\ \A i \in 1..Len(line') : line'[i].kind # "newline"
<1>1. /\ Writing("write_ascii") /\ UNCHANGED line_buf /\ line' = Append(line, c)
      /\ \/ lidx = 0 /\ IsSpace(c) /\ UNCHANGED <<lidx, u32, plb>>
         \/ c.kind = "colon" /\ u32 = 0 /\ plb' = 0 /\ lidx' = 0 /\ u32' = 1
  BY DEF SkipChar, Receive, statics
<1> DEFINE n == Len(line)
           m == Append(line, c)
<1>2. /\ IsSeq(line) /\ n \in Nat /\ LineSoFar /\ \A i \in 1..n : line[i].kind # "newline"
  BY <1>1, LineIs
<1>3. Len(m) = n + 1 /\ m[n + 1] = c /\ \A i \in 1..n : m[i] = line[i]
  BY <1>2, AppendIsSeq
<1>4. /\ Labels(line) => Labels(m) /\ Colon(m) = Colon(line) /\ Colon(line) \in 1..n
      /\ ~Labels(line) /\ c.kind # "colon" => ~Labels(m)
      /\ ~Labels(line) /\ c.kind = "colon" => Labels(m) /\ Colon(m) = n + 1
  BY <1>2, LabelOfLonger
<1> HIDE DEF m
<1>5. line' = m
  BY <1>1 DEF m
<1>6. \A i \in 1..(n + 1) : m[i].kind # "newline"
  <2> SUFFICES ASSUME NEW i \in 1..(n + 1) PROVE m[i].kind # "newline"
    OBVIOUS
  <2>1. i = n + 1 \/ i \in 1..n
    BY <1>2
  <2> QED
    BY <1>2, <1>3, <2>1
<1>7. CASE c.kind = "colon" /\ u32 = 0 /\ plb' = 0 /\ lidx' = 0 /\ u32' = 1
  <2>1. Labels(m) /\ Colon(m) = n + 1
    BY <1>2, <1>4, <1>7 DEF LineSoFar
  <2>2. /\ (n + 1) + 0 <= n + 1 /\ ((n + 1) + 1)..((n + 1) - 0) = {} /\ 1..0 = {}
    BY <1>2
  <2>3. LineSoFar'
    BY <1>3, <1>5, <1>7, <2>1, <2>2 DEF LineSoFar
  <2> QED
    BY <1>3, <1>5, <1>6, <2>3
<1>8. CASE lidx = 0 /\ IsSpace(c) /\ UNCHANGED <<lidx, u32, plb>>
  <2>1. c.kind # "colon"
    BY <1>8 DEF IsSpace
  <2>2. CASE u32 = 0
    <3>1. ~Labels(m)
      BY <1>2, <1>4, <2>1, <2>2 DEF LineSoFar
    <3>2. LineSoFar'
      BY <1>5, <1>8, <2>2, <3>1 DEF LineSoFar
    <3> QED
      BY <1>3, <1>5, <1>6, <3>2
  <2>3. CASE u32 # 0
    <3>1. /\ plb = 0 /\ Labels(line) /\ \A i \in (Colon(line) + 1)..(n - 0) : IsSpace(line[i])
      BY <1>2, <1>8, <2>3 DEF LineSoFar
    <3>2. Labels(m) /\ Colon(m) = Colon(line) /\ Colon(line) \in 1..n
      BY <1>4, <3>1
    <3>3. \A i \in (Colon(m) + 1)..((n + 1) - 0) : IsSpace(m[i])
      <4> SUFFICES ASSUME NEW i \in (Colon(line) + 1)..(n + 1) PROVE IsSpace(m[i])
        BY <1>2, <3>2
      <4>1. i = n + 1 \/ (i \in 1..n /\ i \in (Colon(line) + 1)..(n - 0))
        BY <1>2, <3>2
      <4> QED
        BY <1>3, <1>8, <3>1, <4>1
    <3>4. Colon(m) + 0 <= n + 1 /\ 1..0 = {}
      BY <1>2, <3>2
    <3>5. LineSoFar'
      BY <1>3, <1>5, <1>8, <2>3, <3>1, <3>2, <3>3, <3>4 DEF LineSoFar
    <3> QED
      BY <1>3, <1>5, <1>6, <3>5
  <2> QED
    BY <2>2, <2>3
<1> QED
  BY <1>1, <1>7, <1>8

\* A character that is kept.
LEMMA StoreCharLine ==
  ASSUME WriteInv, LinesInv, NEW c, StoreChar(c), c.kind # "newline"
  PROVE  LineSoFar' /\ \A i \in 1..Len(line') : line'[i].kind # "newline"
<1> DEFINE n == Len(line)
           m == Append(line, c)
           b == SubSeq(line_buf, 1, plb) \o <<c>>
<1>1. /\ Writing("write_ascii") /\ line_buf' = b /\ line' = m
      /\ plb' = plb + 1 /\ lidx' = lidx + 1 /\ u32' = u32
      /\ c.kind = "colon" => u32 # 0
  BY DEF StoreChar, Receive
<1>2. /\ IsSeq(line) /\ n \in Nat /\ LineSoFar /\ \A i \in 1..n : line[i].kind # "newline"
      /\ IsSeq(line_buf) /\ plb \in Nat /\ plb <= Len(line_buf) /\ lidx \in Nat
  BY <1>1, LineIs
<1>3. Len(m) = n + 1 /\ m[n + 1] = c /\ \A i \in 1..n : m[i] = line[i]
  BY <1>2, AppendIsSeq
<1>4. /\ Labels(line) => Labels(m) /\ Colon(m) = Colon(line) /\ Colon(line) \in 1..n
      /\ ~Labels(line) /\ c.kind # "colon" => ~Labels(m)
  BY <1>2, LabelOfLonger
<1>5. b[plb + 1] = c /\ \A i \in 1..plb : b[i] = line_buf[i]
  BY <1>2, PutChar
<1> HIDE DEF m, b
<1>6. \A i \in 1..(n + 1) : m[i].kind # "newline"
  <2> SUFFICES ASSUME NEW i \in 1..(n + 1) PROVE m[i].kind # "newline"
    OBVIOUS
  <2>1. i = n + 1 \/ i \in 1..n
    BY <1>2
  <2> QED
    BY <1>2, <1>3, <2>1
<1>7. CASE u32 = 0
  <2>1. ~Labels(m)
    BY <1>1, <1>2, <1>4, <1>7 DEF LineSoFar
  <2>2. LineSoFar'
    BY <1>1, <1>7, <2>1 DEF LineSoFar
  <2> QED
    BY <1>1, <1>3, <1>6, <2>2
<1>8. CASE u32 # 0
  <2>1. /\ plb = lidx /\ Labels(line) /\ Colon(line) + lidx <= n
        /\ \A i \in (Colon(line) + 1)..(n - lidx) : IsSpace(line[i])
        /\ \A i \in 1..lidx : line_buf[i] = line[(n - lidx) + i]
    BY <1>2, <1>8 DEF LineSoFar
  <2>2. Labels(m) /\ Colon(m) = Colon(line) /\ Colon(line) \in 1..n
    BY <1>4, <2>1
  <2>3. Colon(m) + (lidx + 1) <= n + 1 /\ (n + 1) - (lidx + 1) = n - lidx
    BY <1>2, <2>1, <2>2
  <2>4. ASSUME NEW i \in (Colon(m) + 1)..(n - lidx) PROVE IsSpace(m[i])
    <3>1. i \in 1..n /\ i \in (Colon(line) + 1)..(n - lidx)
      BY <1>2, <2>2
    <3> QED
      BY <1>3, <2>1, <3>1
  <2>5. ASSUME NEW i \in 1..(lidx + 1) PROVE b[i] = m[(n - lidx) + i]
    <3>1. CASE i = lidx + 1
      <4>1. (n - lidx) + i = n + 1
        BY <1>2, <3>1
      <4> QED
        BY <1>3, <1>5, <2>1, <3>1, <4>1
    <3>2. CASE i # lidx + 1
      <4>1. i \in 1..lidx /\ (n - lidx) + i \in 1..n
        BY <1>2, <2>1, <2>2, <3>2
      <4> QED
        BY <1>3, <1>5, <2>1, <4>1
    <3> QED
      BY <3>1, <3>2
  <2>6. LineSoFar'
    BY <1>1, <1>3, <1>8, <2>1, <2>2, <2>3, <2>4, <2>5 DEF LineSoFar
  <2> QED
    BY <1>1, <1>3, <1>6, <2>6
<1> QED
  BY <1>7, <1>8

\* A newline is sent only where there is something behind a label.
LEMMA NewlineIs ==
  ASSUME Labelled, WriteInv, LinesInv, NEW c, c.kind = "newline", SkipChar(c) \/ StoreChar(c)
  PROVE  /\ StoreChar(c) /\ u32 # 0
         /\ InBuffer(line, Len(line) - lidx, SubSeq(line_buf, 1, plb) \o <<c>>)
<1> DEFINE n == Len(line)
           o == n - lidx
           b == SubSeq(line_buf, 1, plb) \o <<c>>
<1>1. Writing("write_ascii") /\ Sends(c)
  BY DEF SkipChar, StoreChar
<1>2. /\ Labels(line) /\ \E i \in (Colon(line) + 1)..n : ~IsSpace(line[i])
  BY <1>1 DEF Sends, Labels
<1>3. /\ IsSeq(line) /\ n \in Nat /\ LineSoFar /\ \A i \in 1..n : line[i].kind # "newline"
      /\ IsSeq(line_buf) /\ plb \in Nat /\ plb <= Len(line_buf) /\ lidx \in Nat
  BY <1>1, LineIs
<1>4. /\ u32 # 0 /\ plb = lidx /\ Colon(line) + lidx <= n
      /\ \A i \in (Colon(line) + 1)..o : IsSpace(line[i])
      /\ \A i \in 1..lidx : line_buf[i] = line[o + i]
  BY <1>2, <1>3 DEF LineSoFar
<1>5. Colon(line) \in Nat
  BY <1>3, ColonIs
<1>6. lidx # 0
  <2> SUFFICES ASSUME lidx = 0 PROVE FALSE
    OBVIOUS
  <2>1. o = n
    BY <1>3
  <2> HIDE DEF o
  <2> QED
    BY <1>2, <1>4, <2>1
<1>7. StoreChar(c)
  BY <1>6 DEF SkipChar
<1>8. Len(b) = plb + 1 /\ b[plb + 1] = c /\ \A i \in 1..plb : b[i] = line_buf[i]
  BY <1>3, PutChar
<1> HIDE DEF b
<1>9. o \in Nat /\ o <= n /\ Colon(line) <= o /\ n - o = lidx
  BY <1>3, <1>4, <1>5
<1> HIDE DEF o
<1>10. InBuffer(line, o, b)
  BY <1>3, <1>4, <1>8, <1>9 DEF InBuffer
<1> QED
  BY <1>4, <1>7, <1>10 DEF o, b

\* Words stored behind others.
LEMMA WordsJoined ==
  ASSUME IsSeq(stored), NEW ws, IsSeq(ws), stored' = stored \o Writes(ws)
  PROVE  IsSeq(stored') /\ IsSeq(Words) /\ Joined(Words, ws, Words')
<1> DEFINE W == Len(ws)
           L == Len(stored)
           t == Writes(ws)
<1>1. W \in Nat /\ L \in Nat
  BY DEF IsSeq
<1>2. t = [k \in 1..W |-> t[k]] /\ \A k \in 1..W : t[k].word = ws[k]
  BY DEF Writes
<1> HIDE DEF t
<1>3. IsSeq(t) /\ Len(t) = W
  BY <1>1, <1>2, FunctionIsSeq
<1>4. Joined(stored, t, stored')
  BY <1>3, ConcatIsSeq DEF t
<1>5. /\ IsSeq(stored') /\ Len(stored') = L + W
      /\ \A i \in 1..L : stored'[i] = stored[i]
      /\ \A i \in 1..W : stored'[L + i] = t[i]
  BY <1>3, <1>4 DEF Joined
<1>6. /\ Words = [k \in 1..L |-> Words[k]] /\ \A k \in 1..L : Words[k] = stored[k].word
      /\ Words' = [k \in 1..(L + W) |-> Words'[k]] /\ \A k \in 1..(L + W) : Words'[k] = stored'[k].word
  BY <1>5 DEF Words
<1>7. L + W \in Nat
  BY <1>1
<1>8. IsSeq(Words) /\ Len(Words) = L /\ IsSeq(Words') /\ Len(Words') = L + W
  <2> HIDE DEF L, W
  <2>1. IsSeq(Words) /\ Len(Words) = L
    BY <1>1, <1>6, FunctionIsSeq
  <2> DEFINE v == Words'
  <2>2. v = [k \in 1..(L + W) |-> v[k]]
    BY <1>6
  <2> HIDE DEF v
  <2>3. IsSeq(v) /\ Len(v) = L + W
    BY <1>7, <2>2, FunctionIsSeq
  <2> QED
    BY <2>1, <2>3 DEF v
<1> HIDE DEF L, W
<1>9. ASSUME NEW i \in 1..L PROVE Words'[i] = Words[i]
  <2>1. i \in 1..(L + W)
    BY <1>1
  <2> QED
    BY <1>5, <1>6, <2>1
<1>10. ASSUME NEW i \in 1..W PROVE Words'[L + i] = ws[i]
  <2>1. L + i \in 1..(L + W)
    BY <1>1
  <2> QED
    BY <1>2, <1>5, <1>6, <2>1
<1> QED
  BY <1>1, <1>5, <1>8, <1>9, <1>10 DEF Joined, W

\* What both sides gain: the same words, or the first of them.
Begin(v, w) == Len(v) <= Len(w) /\ \A k \in 1..Len(v) : v[k] = w[k]

LEMMA SameGain ==
  ASSUME NEW s, IsSeq(s), NEW v, IsSeq(v), NEW w, IsSeq(w), Begin(v, w),
         NEW x, Joined(s, v, x), NEW y, Joined(s, w, y)
  PROVE  IsSeq(y) /\ IsPrefix(x, y) /\ (v = w => x = y)
<1> USE DEF Begin
<1> DEFINE n == Len(s)
           a == Len(v)
           b == Len(w)
<1>1. /\ n \in Nat /\ a \in Nat /\ b \in Nat /\ a <= b
      /\ IsSeq(x) /\ IsSeq(y) /\ Len(x) = n + a /\ Len(y) = n + b
      /\ \A i \in 1..n : x[i] = s[i] /\ y[i] = s[i]
      /\ \A i \in 1..a : x[n + i] = v[i]
      /\ \A i \in 1..b : y[n + i] = w[i]
  BY DEF Joined
<1>2. v = w => a = b
  OBVIOUS
<1> HIDE DEF n
<1>3. ASSUME NEW k \in 1..(n + a) PROVE x[k] = y[k]
  <2>1. CASE k <= n
    BY <1>1, <2>1
  <2>2. CASE k > n
    <3> DEFINE i == k - n
    <3>1. i \in 1..a /\ i \in 1..b /\ n + i = k
      BY <1>1, <2>2
    <3> HIDE DEF i
    <3>2. x[n + i] = v[i] /\ y[n + i] = w[i] /\ v[i] = w[i]
      BY <1>1, <3>1
    <3> QED
      BY <3>1, <3>2
  <2> QED
    BY <1>1, <2>1, <2>2
<1>4. Len(x) <= Len(y)
  BY <1>1
<1>5. IsPrefix(x, y)
  BY <1>1, <1>3, <1>4, PrefixIs
<1>6. v = w => x = y
  BY <1>1, <1>2, <1>3, SameSeq
<1> QED
  BY <1>1, <1>5, <1>6

\* The end of a line.
LEMMA EndOfLineWords ==
  ASSUME Labelled, TapInv, WriteInv, LinesInv, NEW c, c.kind = "newline", SkipChar(c) \/ StoreChar(c)
  PROVE  LinesInv'
<1> DEFINE b == SubSeq(line_buf, 1, plb) \o <<c>>
           done == ProcessLine(b, nleft)
           ws == done.words
           lw == LineWords(line)
<1>1. StoreChar(c) /\ InBuffer(line, Len(line) - lidx, b)
  BY NewlineIs
<1>2. /\ Writing("write_ascii") /\ status = "open" /\ handler = "write_ascii" /\ line_buf' = b
      /\ stored' = stored \o Writes(ws) /\ line' = <<>> /\ expect' = expect \o lw /\ req' = req
      /\ IF done.full THEN status' = "failed" ELSE status' = "open" /\ u32' = 0
  BY <1>1 DEF StoreChar, Writing, Fail, EndOfLine, Receive
<1>3. nleft \in Int
  BY <1>2, LineIs
<1> HIDE DEF b
<1>4. /\ IsSeq(ws) /\ IsSeq(lw) /\ Len(ws) <= Len(lw)
      /\ \A k \in 1..Len(ws) : ws[k] = lw[k]
      /\ ~done.full => ws = lw
  BY <1>1, <1>3, LoopReadsLine
<1>5. ~req.binary
  BY <1>2, SessionIs DEF TapInv
<1>6. IsSeq(stored) /\ Words = expect /\ IsSeq(expect)
  BY <1>2, <1>5 DEF LinesInv, WordsOfLines
<1> HIDE DEF done, lw
<1>7. IsSeq(stored') /\ Joined(expect, ws, Words')
  BY <1>2, <1>4, <1>6, WordsJoined
<1>8. Joined(expect, lw, expect')
  BY <1>2, <1>4, <1>6, ConcatIsSeq
<1> HIDE DEF ws
<1>9. IsSeq(expect') /\ IsPrefix(Words', expect') /\ (ws = lw => Words' = expect')
  <2>1. IsSeq(ws) /\ IsSeq(lw) /\ Begin(ws, lw)
    BY <1>4 DEF Begin
  <2> QED
    BY <1>6, <1>7, <1>8, <2>1, SameGain
<1>10. WordsOfLines'
  BY <1>2, <1>4, <1>7, <1>9 DEF WordsOfLines
<1>11. Writing("write_ascii")' => LineSoFar'
  <2> SUFFICES ASSUME u32' = 0 PROVE LineSoFar'
    BY <1>2 DEF Writing
  <2>1. 1..Len(<<>>) = {}
    BY EmptyIsSeq
  <2>2. ~Labels(line')
    BY <1>2, <2>1 DEF Labels
  <2> QED
    BY <2>2 DEF LineSoFar
<1>12. \A i \in 1..Len(line') : line'[i].kind # "newline"
  BY <1>2, EmptyIsSeq
<1> QED
  BY <1>2, <1>9, <1>10, <1>11, <1>12 DEF LinesInv

\* A step that takes nothing from an ASCII upload.
LEMMA LinesStay ==
  ASSUME LinesInv, status = "open", UNCHANGED <<req, line, expect>>,
         req.binary \/ UNCHANGED stored,
         \/ status' = "open" /\ handler' # "write_ascii"
         \/ status' \in {"done", "lost"}
         \/ status' = "failed" /\ (req.binary \/ IsPrefix(Words, Words))
  PROVE  LinesInv'
<1>1. WordsOfLines'
  BY DEF LinesInv, WordsOfLines, Words
<1> QED
  BY <1>1 DEF LinesInv, Writing

LEMMA LinesWriteChar ==
  ASSUME Labelled, TapInv, WriteInv, LinesInv, WriteChar
  PROVE  LinesInv'
<1>1. PICK c : SkipChar(c) \/ StoreChar(c) \/ LineTooLong(c)
  BY DEF WriteChar
<1>2. CASE LineTooLong(c)
  <2>1. /\ status = "open" /\ handler = "write_ascii" /\ status' = "failed"
        /\ UNCHANGED <<req, line, expect, stored>>
    BY <1>2 DEF LineTooLong, Writing, Fail, wvars
  <2>2. ~req.binary
    BY <2>1, SessionIs DEF TapInv
  <2>3. IsSeq(expect) /\ Words = expect
    BY <2>1, <2>2 DEF LinesInv, WordsOfLines
  <2>4. IsPrefix(Words, Words)
    <3>1. Len(expect) \in Nat
      BY <2>3 DEF IsSeq
    <3>2. Len(expect) <= Len(expect)
      BY <3>1
    <3> QED
      BY <2>3, <3>2, PrefixIs
  <2> QED
    BY <2>1, <2>4, LinesStay
<1>3. CASE (SkipChar(c) \/ StoreChar(c)) /\ c.kind = "newline"
  BY <1>3, EndOfLineWords
<1>4. CASE (SkipChar(c) \/ StoreChar(c)) /\ c.kind # "newline"
  <2>1. LineSoFar' /\ \A i \in 1..Len(line') : line'[i].kind # "newline"
    BY <1>4, SkipCharLine, StoreCharLine
  <2>2. UNCHANGED <<req, status, expect, stored>> /\ status = "open"
    <3>1. CASE SkipChar(c)
      BY <1>4, <3>1 DEF SkipChar, request, Receive, Writing
    <3>2. CASE StoreChar(c)
      BY <1>4, <3>2 DEF StoreChar, Receive, Writing
    <3> QED
      BY <1>4, <3>1, <3>2
  <2>3. WordsOfLines'
    BY <2>2 DEF LinesInv, WordsOfLines, Words
  <2> QED
    BY <2>1, <2>2, <2>3 DEF LinesInv
<1> QED
  BY <1>1, <1>2, <1>3, <1>4

LEMMA LinesOpen ==
  ASSUME TapInv, WriteInv, LinesInv, OpenAny
  PROVE  LinesInv'
<1>1. PICK r \in Requests : Open(r) /\ UNCHANGED <<line, expect, stored>>
  BY DEF OpenAny
<1>2. status = "idle" /\ req' = r
  BY <1>1 DEF Open
<1>3. stored' = <<>> /\ line' = <<>> /\ expect' = <<>>
  BY <1>1, <1>2 DEF TapInv, Granted, WriteInv, AsciiText, LinesInv
<1>4. status' # "failed" /\ status' # "idle" /\ (status' = "open" /\ handler' = "write_ascii" => u32' = 0)
  BY <1>1 DEF Open, Binary
<1>5. 1..Len(<<>>) = {} /\ IsSeq(<<>>)
  BY EmptyIsSeq
<1>6. Words' = <<>>
  <2>1. Words' = [k \in 1..Len(<<>>) |-> <<>>[k].word]
    BY <1>3 DEF Words
  <2> QED
    BY <1>5, <2>1
<1>7. ~Labels(line')
  BY <1>3, <1>5 DEF Labels
<1>8. WordsOfLines'
  BY <1>3, <1>4, <1>5, <1>6 DEF WordsOfLines
<1> QED
  BY <1>3, <1>4, <1>5, <1>7, <1>8 DEF LinesInv, LineSoFar, Writing

LEMMA LinesInvStep ==
  ASSUME Labelled, TapInv, WriteInv, LinesInv, [Next]_vars
  PROVE  LinesInv'
<1>1. CASE OpenAny
  BY <1>1, LinesOpen
<1>2. CASE Forget
  <2>1. status' = "idle" /\ line' = <<>> /\ expect' = <<>> /\ req' = NoRequest
    BY <1>2 DEF Forget
  <2>2. req'.binary
    BY <2>1 DEF NoRequest
  <2> QED
    BY <2>1, <2>2, EmptyIsSeq DEF LinesInv, WordsOfLines, Writing
<1>3. CASE ReadStep /\ UNCHANGED wvars
  <2>1. UNCHANGED <<line, expect, stored>>
    BY <1>3 DEF wvars
  <2>2. /\ req' = req /\ status = "open" /\ handler # "write_ascii"
        /\ \/ status' = "open" /\ handler' = handler
           \/ status' = "done"
    <3>1. CASE MemByte \/ FpgaByte \/ NewLine
      BY <3>1 DEF MemByte, FpgaByte, NewLine, Looping, request, Ascii
    <3>2. CASE SameLine \/ Copy \/ MemoryChanges
      <4>1. handler \in Binary \cup Ascii /\ UNCHANGED <<status, handler, req>>
        BY <3>2 DEF SameLine, Copy, MemoryChanges, request, TapInv, Counters
      <4> QED
        BY <4>1 DEF TapInv, Granted, Binary, Ascii
    <3>3. CASE Return
      BY <3>3 DEF Return, Close, Binary, Ascii
    <3> QED
      BY <1>3, <3>1, <3>2, <3>3 DEF ReadStep
  <2> QED
    BY <2>1, <2>2, LinesStay
<1>4. CASE WriteByte
  <2>1. /\ status = "open" /\ handler = "write_binary" /\ UNCHANGED <<status, handler, req, line, expect>>
    BY <1>4 DEF WriteByte, Writing, request
  <2>2. req.binary
    BY <2>1, SessionIs DEF TapInv
  <2> QED
    BY <2>1, <2>2, LinesStay
<1>5. CASE WriteByteFull
  <2>1. /\ status = "open" /\ handler = "write_binary" /\ status' = "failed"
        /\ UNCHANGED <<req, line, expect, stored>>
    BY <1>5 DEF WriteByteFull, Writing, Fail, wvars
  <2>2. req.binary
    BY <2>1, SessionIs DEF TapInv
  <2> QED
    BY <2>1, <2>2, LinesStay
<1>6. CASE WriteChar
  BY <1>6, LinesWriteChar
<1>7. CASE NextBlock
  <2>1. /\ status = "open" /\ plb' = lidx
        /\ UNCHANGED <<status, handler, req, lidx, u32, line_buf, line, expect, stored>>
    BY <1>7 DEF NextBlock, request, tapcp_state, statics
  <2>2. WordsOfLines'
    BY <2>1 DEF LinesInv, WordsOfLines, Words
  <2>3. LineSoFar => LineSoFar'
    BY <2>1 DEF LineSoFar
  <2> QED
    BY <2>1, <2>2, <2>3 DEF LinesInv, Writing
<1>8. CASE EndUpload \/ GoneAway
  <2>1. /\ status = "open" /\ status' \in {"done", "lost"}
        /\ UNCHANGED <<req, line, expect, stored>>
    BY <1>8 DEF EndUpload, GoneAway, Abandon, Close, wvars
  <2> QED
    BY <2>1, LinesStay
<1>9. CASE UNCHANGED vars
  <2>1. UNCHANGED <<status, handler, req, lidx, u32, plb, line_buf, line, expect, stored>>
    BY <1>9 DEF vars, rvars, wvars, request, tapcp_state, statics
  <2> QED
    BY <2>1 DEF LinesInv, LineSoFar, WordsOfLines, Words, Writing
<1> QED
  BY <1>1, <1>2, <1>3, <1>4, <1>5, <1>6, <1>7, <1>8, <1>9 DEF Next

LEMMA LinesInvHolds ==
  ASSUME Labelled
  PROVE  Spec => []LinesInv
<1>1. Init => LinesInv
  BY EmptyIsSeq
  DEF Init, ReadInit, LinesInv, WordsOfLines, Writing, NoRequest
<1>2. TapInv /\ WriteInv /\ LinesInv /\ [Next]_vars => LinesInv'
  BY LinesInvStep
<1> QED
  BY <1>1, <1>2, TapInvHolds, WriteInvHolds, PTL DEF Spec

(***************************************************************************)
(* FpgaWordsWhole.  Whatever the gateware does to a register while a       *)
(* binary read is under way, and wherever the blocks end: the four bytes   *)
(* of a word of FPGA memory are of one read of it, because the reader      *)
(* keeps the word in a static variable.                                    *)
(***************************************************************************)
THEOREM FpgaWordsWhole == Spec => []WordsWhole
<1>1. TapInv => WordsWhole
  BY DEF TapInv, BytesSent, FpgaWords, WordsWhole, Binary
<1> QED
  BY <1>1, TapInvHolds, PTL

(***************************************************************************)
(* ReadsReturnDump.  The blocks that the calls of a reader have returned   *)
(* are, put together, a beginning of the memory asked for, in bytes or as  *)
(* a hex dump with its labels and newlines: for every device list, every   *)
(* block size, every length of a line and every request whose place and    *)
(* end can be written in 32 bits, wherever the blocks cut words and lines, *)
(* and whatever earlier transfers left in line_buf, lidx and the static    *)
(* word.                                                                   *)
(***************************************************************************)
THEOREM ReadsReturnDump == Spec => []InOrder
<1>1. TapInv /\ ReadInv => InOrder
  BY ReadsInOrder
<1> QED
  BY <1>1, TapInvHolds, ReadInvHolds, PTL

(***************************************************************************)
(* BinaryReadsComplete.  A binary read that ends has returned all of it,   *)
(* if its length is positive as a signed number (nleft is an int) and the  *)
(* device is a whole number of words.                                      *)
(***************************************************************************)
THEOREM BinaryReadsComplete == Spec => [](Small(req) => Complete)
<1>1. TapInv => (Small(req) => Complete)
  BY ReadsComplete
<1> QED
  BY <1>1, TapInvHolds, PTL

(***************************************************************************)
(* UploadsStoredInPlace.  An upload has stored its words one behind the    *)
(* other from the place it names on; a binary one its bytes in order, four *)
(* to a word, wherever its blocks ended and whatever an abandoned upload   *)
(* left in the static word and in line_buf.                                *)
(***************************************************************************)
THEOREM UploadsStoredInPlace == Spec => []StoredInPlace
<1>1. TapInv /\ WriteInv => StoredInPlace
  BY UploadsInPlace
<1> QED
  BY <1>1, TapInvHolds, WriteInvHolds, PTL

(***************************************************************************)
(* TransfersInOwnMemory.  A read or an upload whose offset is inside the   *)
(* device or the address space that its request names, and whose end can   *)
(* be written in 32 bits, reads or writes no memory outside of it,         *)
(* whatever text an ASCII upload consists of; a read that starts past the  *)
(* end of its device sends nothing.  It says nothing about uploads that    *)
(* start past the end (nleft is negative and no bound) and about reads     *)
(* whose offset and length wrap: those leave the device.                   *)
(***************************************************************************)
THEOREM TransfersInOwnMemory == Spec => []OwnMemory
<1>1. TapInv /\ WriteInv /\ ReadInv /\ PastInv => OwnMemory
  BY InOwnMemory
<1> QED
  BY <1>1, TapInvHolds, WriteInvHolds, ReadInvHolds, PastInvHolds, PTL

(***************************************************************************)
(* UploadsFailOnlyWhenFull.  A writer gives up only when it has filled the *)
(* region to its last whole word or, the ASCII one, in a line that is      *)
(* longer than the buffer.                                                 *)
(***************************************************************************)
THEOREM UploadsFailOnlyWhenFull == Spec => []FailsOnlyWhenFull
<1>1. TapInv /\ WriteInv => FailsOnlyWhenFull
  BY FailsFull
<1> QED
  BY <1>1, TapInvHolds, WriteInvHolds, PTL

(***************************************************************************)
(* LabelledLinesStored.  An ASCII upload whose lines have labels has       *)
(* stored the words of its complete lines as the documented format reads   *)
(* them, once and in order: for every length of a line, a block, a word,   *)
(* the buffer and the region, wherever the blocks cut the lines, and       *)
(* whatever earlier transfers left in line_buf.  One that was cut off has  *)
(* stored the first of them.                                               *)
(***************************************************************************)
THEOREM LabelledLinesStored ==
  ASSUME Labelled
  PROVE  Spec => []LinesStored
<1>1. LinesInv => LinesStored
  BY DEF LinesInv, WordsOfLines, LinesStored
<1> QED
  BY <1>1, LinesInvHolds, PTL
=============================================================================
