----------------------------- MODULE FlashProofs -----------------------------
(***************************************************************************)
(* Proofs about Flash, for every size of flash, sector, page and block and *)
(* every number of stalls: a driver function that meets no stall leaves    *)
(* the chip at rest whatever it found, and in a transfer that is not       *)
(* disturbed what is acknowledged is stored, what is read is what the      *)
(* flash holds, and no other sector is touched.                            *)
(*                                                                         *)
(* The driver's functions are followed command by command on the chip's    *)
(* state, once from rest and once from any state; the inductive invariant  *)
(* then says that the sector an undisturbed write is in is erased from the *)
(* next byte on.                                                           *)
(***************************************************************************)
EXTENDS Flash, TLAPS

(***************************************************************************)
(* Arithmetic: quotients, remainders, and pages in sectors.                *)
(***************************************************************************)
LEMMA DivMod ==
  ASSUME NEW n \in Nat \ {0}, NEW x \in Nat
  PROVE  /\ x \div n \in Nat
         /\ x % n \in 0..(n - 1)
         /\ x = n * (x \div n) + (x % n)
OBVIOUS

\* The next multiple is at least n away.
LEMMA Mono ==
  ASSUME NEW n \in Nat, NEW q \in Nat, NEW r \in Nat, q + 1 <= r
  PROVE  n * q + n <= n * r
<1>1. PICK d \in Nat : r = q + 1 + d
  BY q + 1 <= r
<1>2. n * r = n * q + n + n * d
  BY <1>1
<1>3. n * d \in Nat
  OBVIOUS
<1> QED BY <1>2, <1>3

\* Quotient and remainder are unique.
LEMMA DivUnique ==
  ASSUME NEW n \in Nat \ {0}, NEW q \in Nat, NEW r \in 0..(n - 1), NEW x \in Nat,
         x = n * q + r
  PROVE  /\ x \div n = q
         /\ x % n = r
<1>1. /\ x \div n \in Nat /\ x % n \in 0..(n - 1)
      /\ x = n * (x \div n) + (x % n)
  BY DivMod
<1> DEFINE q1 == x \div n
           r1 == x % n
<1> HIDE DEF q1, r1
<1>2. ~(q1 + 1 <= q)
  BY <1>1, Mono DEF q1, r1
<1>3. ~(q + 1 <= q1)
  BY <1>1, Mono DEF q1, r1
<1>4. q1 = q
  BY <1>1, <1>2, <1>3 DEF q1, r1
<1> QED BY <1>1, <1>4 DEF q1, r1

LEMMA Multiple ==
  ASSUME NEW n \in Nat \ {0}, NEW x \in Nat, x % n = 0
  PROVE  x \div n \in Nat /\ x = n * (x \div n)
BY DivMod

LEMMA IsMultiple ==
  ASSUME NEW n \in Nat \ {0}, NEW k \in Nat
  PROVE  (n * k) % n = 0
BY DivUnique, n * k = n * k + 0, n * k \in Nat

LEMMA MultipleSum ==
  ASSUME NEW n \in Nat \ {0}, NEW x \in Nat, NEW y \in Nat, x % n = 0, y % n = 0
  PROVE  (x + y) % n = 0
<1> DEFINE i == x \div n
           j == y \div n
<1>1. i \in Nat /\ j \in Nat /\ x = n * i /\ y = n * j
  BY Multiple
<1> HIDE DEF i, j
<1>2. x + y = n * (i + j)
  BY <1>1
<1> QED BY <1>1, <1>2, IsMultiple

LEMMA MultipleDifference ==
  ASSUME NEW n \in Nat \ {0}, NEW x \in Nat, NEW y \in Nat, x % n = 0, y % n = 0,
         y <= x
  PROVE  (x - y) % n = 0
<1> DEFINE i == x \div n
           j == y \div n
<1>1. i \in Nat /\ j \in Nat /\ x = n * i /\ y = n * j
  BY Multiple
<1> HIDE DEF i, j
<1>2. ~(i + 1 <= j)
  BY <1>1, Mono
<1>3. i - j \in Nat
  BY <1>1, <1>2
<1>4. x - y = n * (i - j)
  BY <1>1
<1> QED BY <1>3, <1>4, IsMultiple

LEMMA MultipleGap ==
  ASSUME NEW n \in Nat \ {0}, NEW x \in Nat, NEW y \in Nat, x % n = 0, y % n = 0,
         y < x
  PROVE  y + n <= x
<1> DEFINE i == x \div n
           j == y \div n
<1>1. i \in Nat /\ j \in Nat /\ x = n * i /\ y = n * j
  BY Multiple
<1> HIDE DEF i, j
<1>2. i # j /\ ~(i + 1 <= j)
  BY <1>1, Mono
<1>3. j + 1 <= i
  BY <1>1, <1>2
<1> QED BY <1>1, <1>3, Mono

LEMMA MultipleTransitive ==
  ASSUME NEW n \in Nat \ {0}, NEW m \in Nat \ {0}, NEW x \in Nat,
         m % n = 0, x % m = 0
  PROVE  x % n = 0
<1> DEFINE i == x \div m
           j == m \div n
<1>1. i \in Nat /\ j \in Nat /\ x = m * i /\ m = n * j
  BY Multiple
<1> HIDE DEF i, j
<1>2. x = n * (j * i) /\ j * i \in Nat
  BY <1>1
<1> QED BY <1>2, IsMultiple

\* A page that begins at a multiple of its size does not leave its sector, and
\* the next page is in the same sector or begins one.
LEMMA PageFitsSector ==
  ASSUME NEW p \in Nat \ {0}, NEW s \in Nat \ {0}, s % p = 0,
         NEW x \in Nat, x % p = 0
  PROVE  (x % s) + p <= s
<1> DEFINE q == x \div s
           r == x % s
           b == s * q
<1>1. q \in Nat /\ r \in 0..(s - 1) /\ x = b + r
  BY DivMod
<1> HIDE DEF q, r
<1>2. b \in Nat
  BY <1>1
<1>3. b % s = 0
  BY <1>1, IsMultiple, Zenon
<1> HIDE DEF b
<1>4. b % p = 0
  BY <1>2, <1>3, MultipleTransitive, Zenon
<1>5. b <= x /\ x - b = r /\ r \in Nat /\ r < s
  BY <1>1, <1>2
<1>6. r % p = 0
  <2>1. (x - b) % p = 0
    BY <1>2, <1>4, <1>5, MultipleDifference, Zenon
  <2> QED BY <2>1, <1>5
<1>7. r + p <= s
  BY <1>5, <1>6, MultipleGap, Zenon
<1> QED BY <1>7 DEF r

LEMMA PageInSector ==
  ASSUME NEW p \in Nat \ {0}, NEW s \in Nat \ {0}, s % p = 0,
         NEW x \in Nat, x % p = 0, NEW j \in 0..(p - 1)
  PROVE  (x + j) \div s = x \div s
<1> DEFINE q == x \div s
           r == x % s
<1>1. q \in Nat /\ r \in 0..(s - 1) /\ x = s * q + r
  BY DivMod
<1>2. r + p <= s
  BY PageFitsSector
<1> HIDE DEF q, r
<1>3. r + j \in 0..(s - 1) /\ x + j = s * q + (r + j) /\ x + j \in Nat
  BY <1>1, <1>2
<1>4. (x + j) \div s = q
  BY <1>1, <1>3, DivUnique
<1> QED BY <1>4 DEF q

LEMMA NextPageInSector ==
  ASSUME NEW p \in Nat \ {0}, NEW s \in Nat \ {0}, s % p = 0,
         NEW x \in Nat, x % p = 0, (x + p) % s # 0
  PROVE  (x + p) \div s = x \div s
<1> DEFINE q == x \div s
           r == x % s
<1>1. q \in Nat /\ r \in 0..(s - 1) /\ x = s * q + r
  BY DivMod
<1>2. r + p <= s
  BY PageFitsSector
<1> HIDE DEF q, r
<1>3. r + p # s
  <2> SUFFICES ASSUME r + p = s PROVE FALSE
    OBVIOUS
  <2>1. x + p = s * (q + 1)
    BY <1>1
  <2>2. (s * (q + 1)) % s = 0
    BY <1>1, IsMultiple
  <2> QED BY <2>1, <2>2
<1>4. r + p \in 0..(s - 1) /\ x + p = s * q + (r + p) /\ x + p \in Nat
  BY <1>1, <1>2, <1>3
<1>5. (x + p) \div s = q
  BY <1>1, <1>4, DivUnique
<1> QED BY <1>5 DEF q

LEMMA SectorStart ==
  ASSUME NEW s \in Nat \ {0}, NEW x \in Nat, x % s = 0, NEW a \in Nat,
         a \div s = x \div s
  PROVE  x <= a
<1>1. x = s * (x \div s) /\ a = s * (a \div s) + (a % s) /\ a % s \in Nat
  BY Multiple, DivMod
<1> QED BY <1>1
-----------------------------------------------------------------------------
(***************************************************************************)
(* The commands of the driver.                                             *)
(***************************************************************************)
Byte ==
  {Erased, Lost, Garbage} \cup {Old(a) : a \in Addr}
    \cup {Data(t, p) : t \in Nat, p \in Nat}
Memory == [Addr -> Byte]
ChipState ==
  [mem : Memory, wel : BOOLEAN, four : BOOLEAN, busy : BOOLEAN,
   open : BOOLEAN, stall : Nat]

\* The chip holds m, no transaction is open and none will stall; w, f and b are
\* 1 when writes are enabled, in 4-byte mode and while it is busy, else 0.
In(c, m, w, f, b) ==
  /\ c \in ChipState
  /\ c.mem = m
  /\ c.wel <=> (w = 1)
  /\ c.four <=> (f = 1)
  /\ c.busy <=> (b = 1)
  /\ ~c.open
  /\ c.stall = 0

\* A command to such a chip is executed.
LEMMA SendExecutes ==
  ASSUME NEW c, NEW cmd, NEW m, NEW w, NEW f, NEW b, In(c, m, w, f, b)
  PROVE  /\ In([c EXCEPT !.stall = 0], m, w, f, b)
         /\ send_spi(c, cmd) = Execute([c EXCEPT !.stall = 0], cmd)
BY DEF In, ChipState, send_spi

\* Writes are enabled.
LEMMA WriteEnable ==
  ASSUME NEW c, NEW m, NEW w, NEW f, In(c, m, w, f, 0)
  PROVE  In(send_spi(c, Command("write_enable")), m, 1, f, 0)
<1> DEFINE d == [c EXCEPT !.stall = 0]
<1>1. In(d, m, w, f, 0) /\ send_spi(c, Command("write_enable")) = Execute(d, Command("write_enable"))
  BY SendExecutes, Zenon
<1> HIDE DEF d
<1>2. In([d EXCEPT !.wel = TRUE], m, 1, f, 0)
  BY <1>1 DEF In, ChipState
<1>3. Execute(d, Command("write_enable")) = [d EXCEPT !.wel = TRUE]
  BY <1>1 DEF In, ChipState, Execute, Command
<1> QED BY <1>1, <1>2, <1>3

\* Writes are disabled.
LEMMA WriteDisable ==
  ASSUME NEW c, NEW m, NEW w, NEW f, In(c, m, w, f, 0)
  PROVE  In(send_spi(c, Command("write_disable")), m, 0, f, 0)
<1> DEFINE d == [c EXCEPT !.stall = 0]
<1>1. In(d, m, w, f, 0) /\ send_spi(c, Command("write_disable")) = Execute(d, Command("write_disable"))
  BY SendExecutes, Zenon
<1> HIDE DEF d
<1> DEFINE e == [d EXCEPT !.wel = FALSE]
<1>2. e \in ChipState
  BY <1>1 DEF In, ChipState
<1>3. ~e.wel
  BY <1>1 DEF In, ChipState
<1>4. /\ e.mem = d.mem /\ e.four = d.four /\ e.busy = d.busy
      /\ e.open = d.open /\ e.stall = d.stall
  BY <1>1 DEF In, ChipState
<1>5. Execute(d, Command("write_disable")) = e
  BY <1>1 DEF In, ChipState, Execute, Command
<1> HIDE DEF e
<1>6. In(e, m, 0, f, 0)
  BY <1>1, <1>2, <1>3, <1>4 DEF In
<1> QED BY <1>1, <1>5, <1>6

\* 4-byte mode is entered when writes are enabled.
LEMMA EnterMode ==
  ASSUME NEW c, NEW m, NEW f, In(c, m, 1, f, 0)
  PROVE  In(send_spi(c, Command("enter_4b")), m, 1, 1, 0)
<1> DEFINE d == [c EXCEPT !.stall = 0]
<1>1. In(d, m, 1, f, 0) /\ send_spi(c, Command("enter_4b")) = Execute(d, Command("enter_4b"))
  BY SendExecutes, Zenon
<1> HIDE DEF d
<1>2. In([d EXCEPT !.four = TRUE], m, 1, 1, 0)
  BY <1>1 DEF In, ChipState
<1>3. Execute(d, Command("enter_4b")) = [d EXCEPT !.four = TRUE]
  BY <1>1 DEF In, ChipState, Execute, Command
<1> QED BY <1>1, <1>2, <1>3

\* 4-byte mode is left when writes are enabled.
LEMMA ExitMode ==
  ASSUME NEW c, NEW m, NEW f, In(c, m, 1, f, 0)
  PROVE  In(send_spi(c, Command("exit_4b")), m, 1, 0, 0)
<1> DEFINE d == [c EXCEPT !.stall = 0]
<1>1. In(d, m, 1, f, 0) /\ send_spi(c, Command("exit_4b")) = Execute(d, Command("exit_4b"))
  BY SendExecutes, Zenon
<1> HIDE DEF d
<1> DEFINE e == [d EXCEPT !.four = FALSE]
<1>2. e \in ChipState
  BY <1>1 DEF In, ChipState
<1>3. ~e.four
  BY <1>1 DEF In, ChipState
<1>4. /\ e.mem = d.mem /\ e.wel = d.wel /\ e.busy = d.busy
      /\ e.open = d.open /\ e.stall = d.stall
  BY <1>1 DEF In, ChipState
<1>5. Execute(d, Command("exit_4b")) = e
  BY <1>1 DEF In, ChipState, Execute, Command
<1> HIDE DEF e
<1>6. In(e, m, 1, 0, 0)
  BY <1>1, <1>2, <1>3, <1>4 DEF In
<1> QED BY <1>1, <1>5, <1>6

\* A command that reads changes nothing.
LEMMA StatusRead ==
  ASSUME NEW c, NEW m, NEW w, NEW f, In(c, m, w, f, 0),
         NEW op \in {"flag_status", "read", "status"}
  PROVE  In(send_spi(c, Command(op)), m, w, f, 0)
<1> DEFINE d == [c EXCEPT !.stall = 0]
<1>1. In(d, m, w, f, 0) /\ send_spi(c, Command(op)) = Execute(d, Command(op))
  BY SendExecutes, Zenon
<1> HIDE DEF d
<1>2. Execute(d, Command(op)) = d
  BY <1>1 DEF In, ChipState, Execute, Command
<1> QED BY <1>1, <1>2

\* The status is polled until the chip is no longer busy.
LEMMA StatusPolled ==
  ASSUME NEW c, NEW m, NEW w, NEW f, In(c, m, w, f, 1)
  PROVE  In(send_spi(c, Command("status")), m, w, f, 0)
<1> DEFINE d == [c EXCEPT !.stall = 0]
<1>1. In(d, m, w, f, 1) /\ send_spi(c, Command("status")) = Execute(d, Command("status"))
  BY SendExecutes, Zenon
<1> HIDE DEF d
<1> DEFINE e == [d EXCEPT !.busy = FALSE]
<1>2. e \in ChipState
  BY <1>1 DEF In, ChipState
<1>3. ~e.busy
  BY <1>1 DEF In, ChipState
<1>4. /\ e.mem = d.mem /\ e.wel = d.wel /\ e.four = d.four
      /\ e.open = d.open /\ e.stall = d.stall
  BY <1>1 DEF In, ChipState
<1>5. Execute(d, Command("status")) = e
  BY <1>1 DEF In, ChipState, Execute, Command
<1> HIDE DEF e
<1>6. In(e, m, w, f, 0)
  BY <1>1, <1>2, <1>3, <1>4 DEF In
<1> QED BY <1>1, <1>5, <1>6

\* flash_enter_4b_mode and flash_exit_4b_mode, from an idle chip.
LEMMA ModeEntered ==
  ASSUME NEW c, NEW m, NEW w, NEW f, In(c, m, w, f, 0)
  PROVE  In(flash_enter_4b_mode(c), m, 0, 1, 0)
<1> DEFINE enabled == send_spi(c, Command("write_enable"))
           mode == send_spi(enabled, Command("enter_4b"))
           status == send_spi(mode, Command("flag_status"))
<1>1. In(enabled, m, 1, f, 0)
  BY WriteEnable, Zenon
<1>2. In(mode, m, 1, 1, 0)
  BY <1>1, EnterMode, Zenon
<1>3. In(status, m, 1, 1, 0)
  BY <1>2, StatusRead, Zenon
<1>4. In(send_spi(status, Command("write_disable")), m, 0, 1, 0)
  BY <1>3, WriteDisable, Zenon
<1> QED BY <1>4, Zenon DEF flash_enter_4b_mode

LEMMA ModeLeft ==
  ASSUME NEW c, NEW m, NEW w, NEW f, In(c, m, w, f, 0)
  PROVE  In(flash_exit_4b_mode(c), m, 0, 0, 0)
<1> DEFINE enabled == send_spi(c, Command("write_enable"))
           mode == send_spi(enabled, Command("exit_4b"))
           status == send_spi(mode, Command("flag_status"))
<1>1. In(enabled, m, 1, f, 0)
  BY WriteEnable, Zenon
<1>2. In(mode, m, 1, 0, 0)
  BY <1>1, ExitMode, Zenon
<1>3. In(status, m, 1, 0, 0)
  BY <1>2, StatusRead, Zenon
<1>4. In(send_spi(status, Command("write_disable")), m, 0, 0, 0)
  BY <1>3, WriteDisable, Zenon
<1> QED BY <1>4, Zenon DEF flash_exit_4b_mode

\* The memory m after an erase of the sector of a.
ErasedAt(m, a) == [b \in Addr |-> IF b \in SectorOf(a) THEN Erased ELSE m[b]]

\* The memory m after a page has been programmed at a.
Programmed(m, a, page) ==
  [b \in Addr |-> IF b - a \in 0..(PageSize - 1)
                    THEN Program(m[b], page[b - a + 1]) ELSE m[b]]

LEMMA ErasedMemory ==
  ASSUME NEW m \in Memory, NEW a
  PROVE  ErasedAt(m, a) \in Memory
BY DEF ErasedAt, Memory, Byte

LEMMA ProgrammedMemory ==
  ASSUME NEW m \in Memory, NEW a \in Nat, NEW page \in [1..PageSize -> Byte]
  PROVE  Programmed(m, a, page) \in Memory
<1> USE FlashAssumption
<1>1. ASSUME NEW b \in Addr
      PROVE  (IF b - a \in 0..(PageSize - 1)
                    THEN Program(m[b], page[b - a + 1]) ELSE m[b]) \in Byte
  <2>1. m[b] \in Byte
    BY DEF Memory
  <2>2. CASE b - a \in 0..(PageSize - 1)
    <3>1. b - a + 1 \in 1..PageSize
      BY <2>2 DEF Addr
    <3>2. page[b - a + 1] \in Byte
      BY <3>1
    <3>3. Lost \in Byte
      BY DEF Byte
    <3> QED BY <2>2, <3>2, <3>3 DEF Program
  <2> QED BY <2>1, <2>2
<1> QED BY <1>1 DEF Programmed, Memory

\* What an erase and a program leave, with writes enabled and in 4-byte mode.
LEMMA EraseSent ==
  ASSUME NEW c, NEW m \in Memory, In(c, m, 1, 1, 0), NEW a
  PROVE  In(send_spi(c, [op |-> "erase", addr |-> a]), ErasedAt(m, a), 0, 1, 1)
<1> DEFINE cmd == [op |-> "erase", addr |-> a]
           n == ErasedAt(m, a)
           d == [c EXCEPT !.stall = 0]
<1>1. In(d, m, 1, 1, 0) /\ send_spi(c, cmd) = Execute(d, cmd)
  BY SendExecutes, Zenon
<1>2. n \in Memory
  BY ErasedMemory
<1> HIDE DEF d
<1>3. Execute(d, cmd) = [d EXCEPT !.mem = n, !.wel = FALSE, !.busy = TRUE]
  BY <1>1 DEF In, ChipState, Execute, ErasedAt
<1> HIDE DEF n
<1> DEFINE e == [d EXCEPT !.mem = n, !.wel = FALSE, !.busy = TRUE]
<1>4. e \in ChipState
  BY <1>1, <1>2 DEF In, ChipState
<1>5. ~e.wel /\ e.busy
  BY <1>1 DEF In, ChipState
<1>6. e.mem = n /\ e.four = d.four /\ e.open = d.open /\ e.stall = d.stall
  BY <1>1 DEF In, ChipState
<1> HIDE DEF e
<1>7. In(e, n, 0, 1, 1)
  BY <1>1, <1>4, <1>5, <1>6 DEF In
<1> QED BY <1>1, <1>3, <1>7 DEF e, n

LEMMA ProgramSent ==
  ASSUME NEW c, NEW m \in Memory, In(c, m, 1, 1, 0), NEW a \in Nat,
         NEW page \in [1..PageSize -> Byte]
  PROVE  In(send_spi(c, [op |-> "program", addr |-> a, page |-> page]),
            Programmed(m, a, page), 0, 1, 1)
<1> DEFINE cmd == [op |-> "program", addr |-> a, page |-> page]
           n == Programmed(m, a, page)
           d == [c EXCEPT !.stall = 0]
<1>1. In(d, m, 1, 1, 0) /\ send_spi(c, cmd) = Execute(d, cmd)
  BY SendExecutes, Zenon
<1>2. n \in Memory
  BY ProgrammedMemory
<1> HIDE DEF d
<1>3. Execute(d, cmd) = [d EXCEPT !.mem = n, !.wel = FALSE, !.busy = TRUE]
  BY <1>1 DEF In, ChipState, Execute, Programmed
<1> HIDE DEF n
<1> DEFINE e == [d EXCEPT !.mem = n, !.wel = FALSE, !.busy = TRUE]
<1>4. e \in ChipState
  BY <1>1, <1>2 DEF In, ChipState
<1>5. ~e.wel /\ e.busy
  BY <1>1 DEF In, ChipState
<1>6. e.mem = n /\ e.four = d.four /\ e.open = d.open /\ e.stall = d.stall
  BY <1>1 DEF In, ChipState
<1> HIDE DEF e
<1>7. In(e, n, 0, 1, 1)
  BY <1>1, <1>4, <1>5, <1>6 DEF In
<1> QED BY <1>1, <1>3, <1>7 DEF e, n

\* flash_erase_sector, flash_write_page and flash_read on a chip that is idle,
\* out of 4-byte mode and with writes disabled: they leave it like that.
LEMMA SectorErased ==
  ASSUME NEW c, NEW m \in Memory, In(c, m, 0, 0, 0), NEW a
  PROVE  In(flash_erase_sector(c, a), ErasedAt(m, a), 0, 0, 0)
<1> DEFINE cmd == [op |-> "erase", addr |-> a]
           n == ErasedAt(m, a)
           entered == flash_enter_4b_mode(c)
           enabled == send_spi(entered, Command("write_enable"))
           erase == send_spi(enabled, cmd)
           polled == send_spi(erase, Command("status"))
           left == flash_exit_4b_mode(polled)
<1>1. In(entered, m, 0, 1, 0)
  BY ModeEntered, Zenon
<1>2. In(enabled, m, 1, 1, 0)
  BY <1>1, WriteEnable, Zenon
<1>3. In(erase, n, 0, 1, 1)
  BY <1>2, EraseSent, Zenon
<1>4. In(polled, n, 0, 1, 0)
  BY <1>3, StatusPolled, Zenon
<1>5. In(left, n, 0, 0, 0)
  BY <1>4, ModeLeft, Zenon
<1>6. In(send_spi(left, Command("write_disable")), n, 0, 0, 0)
  BY <1>5, WriteDisable, Zenon
<1> QED BY <1>6, Zenon DEF flash_erase_sector

LEMMA PageWritten ==
  ASSUME NEW c, NEW m \in Memory, In(c, m, 0, 0, 0), NEW a \in Nat,
         NEW page \in [1..PageSize -> Byte]
  PROVE  In(flash_write_page(c, a, page), Programmed(m, a, page), 0, 0, 0)
<1> DEFINE cmd == [op |-> "program", addr |-> a, page |-> page]
           n == Programmed(m, a, page)
           entered == flash_enter_4b_mode(c)
           enabled == send_spi(entered, Command("write_enable"))
           program == send_spi(enabled, cmd)
           polled == send_spi(program, Command("status"))
           disabled == send_spi(polled, Command("write_disable"))
<1>1. In(entered, m, 0, 1, 0)
  BY ModeEntered, Zenon
<1>2. In(enabled, m, 1, 1, 0)
  BY <1>1, WriteEnable, Zenon
<1>3. In(program, n, 0, 1, 1)
  BY <1>2, ProgramSent, Zenon
<1>4. In(polled, n, 0, 1, 0)
  BY <1>3, StatusPolled, Zenon
<1>5. In(disabled, n, 0, 1, 0)
  BY <1>4, WriteDisable, Zenon
<1>6. In(flash_exit_4b_mode(disabled), n, 0, 0, 0)
  BY <1>5, ModeLeft, Zenon
<1> QED BY <1>6, Zenon DEF flash_write_page

LEMMA ReadDone ==
  ASSUME NEW c, NEW m, In(c, m, 0, 0, 0)
  PROVE  /\ In(flash_read(c), m, 0, 0, 0)
         /\ \A a : flash_read_data(c, a) = m[a]
<1> DEFINE entered == flash_enter_4b_mode(c)
           read == send_spi(entered, Command("read"))
           polled == send_spi(read, Command("status"))
<1>1. In(entered, m, 0, 1, 0)
  BY ModeEntered, Zenon
<1>2. In(read, m, 0, 1, 0)
  BY <1>1, StatusRead, Zenon
<1>3. In(polled, m, 0, 1, 0)
  BY <1>2, StatusRead, Zenon
<1>4. In(flash_exit_4b_mode(polled), m, 0, 0, 0)
  BY <1>3, ModeLeft, Zenon
<1>5. In(flash_read(c), m, 0, 0, 0)
  BY <1>4, Zenon DEF flash_read
<1> HIDE DEF entered, read
<1>6. entered.four /\ ~entered.busy /\ ~entered.open /\ ~read.open /\ entered.mem = m
  BY <1>1, <1>2 DEF In
<1>7. \A a : flash_read_data(c, a) = m[a]
  BY <1>6 DEF flash_read_data, entered, read
<1> QED BY <1>5, <1>7

-----------------------------------------------------------------------------
(***************************************************************************)
(* The same functions from any state of the chip.                          *)
(***************************************************************************)
\* The commands the driver sends.
Sent(cmd) ==
  \/ \E op \in {"write_enable", "write_disable", "enter_4b", "exit_4b",
                "flag_status", "status", "read"} : cmd = Command(op)
  \/ \E a \in Nat : cmd = [op |-> "erase", addr |-> a]
  \/ \E a \in Nat, page \in [1..PageSize -> Byte] :
       cmd = [op |-> "program", addr |-> a, page |-> page]

\* A page programmed outside 4-byte mode.
Spoilt(m, a) ==
  [b \in Addr |-> IF b \div PageSize = a \div (PageSize * PageSize)
                    THEN Lost ELSE m[b]]

\* What a command may do to a chip that sees it.
LEMMA Executed ==
  ASSUME NEW c \in ChipState, NEW cmd, Sent(cmd)
  PROVE  /\ Execute(c, cmd) \in ChipState
         /\ Execute(c, cmd).open = c.open
         /\ Execute(c, cmd).stall = c.stall
<1>1. \E m \in Memory, w \in BOOLEAN, f \in BOOLEAN, b \in BOOLEAN :
        Execute(c, cmd) = [c EXCEPT !.mem = m, !.wel = w, !.four = f, !.busy = b]
  <2>1. /\ c.mem \in Memory /\ c.wel \in BOOLEAN /\ c.four \in BOOLEAN
        /\ c.busy \in BOOLEAN
    BY DEF ChipState
  <2>2. ASSUME NEW op \in {"write_enable", "write_disable", "enter_4b", "exit_4b",
                           "flag_status", "status", "read"}, cmd = Command(op)
        PROVE  \E w \in BOOLEAN, f \in BOOLEAN, b \in BOOLEAN :
                 Execute(c, cmd) = [c EXCEPT !.mem = c.mem, !.wel = w, !.four = f, !.busy = b]
    <3>1. cmd.op = op
      BY <2>2 DEF Command
    <3>2. CASE c.busy
      <4>1. Execute(c, cmd) = [c EXCEPT !.mem = c.mem, !.wel = c.wel, !.four = c.four, !.busy = (op # "status")]
        BY <3>1, <3>2 DEF Execute, ChipState
      <4>2. (op # "status") \in BOOLEAN
        OBVIOUS
      <4> QED BY <2>1, <4>1, <4>2
    <3>3. CASE ~c.busy
      <4>1. \/ Execute(c, cmd) = [c EXCEPT !.wel = TRUE]
            \/ Execute(c, cmd) = [c EXCEPT !.wel = FALSE]
            \/ Execute(c, cmd) = [c EXCEPT !.four = TRUE]
            \/ Execute(c, cmd) = [c EXCEPT !.four = FALSE]
            \/ Execute(c, cmd) = c
        BY <3>1, <3>3 DEF Execute
      <4>2. /\ [c EXCEPT !.wel = TRUE] = [c EXCEPT !.mem = c.mem, !.wel = TRUE, !.four = c.four, !.busy = c.busy]
            /\ [c EXCEPT !.wel = FALSE] = [c EXCEPT !.mem = c.mem, !.wel = FALSE, !.four = c.four, !.busy = c.busy]
            /\ [c EXCEPT !.four = TRUE] = [c EXCEPT !.mem = c.mem, !.wel = c.wel, !.four = TRUE, !.busy = c.busy]
            /\ [c EXCEPT !.four = FALSE] = [c EXCEPT !.mem = c.mem, !.wel = c.wel, !.four = FALSE, !.busy = c.busy]
            /\ c = [c EXCEPT !.mem = c.mem, !.wel = c.wel, !.four = c.four, !.busy = c.busy]
        BY DEF ChipState
      <4> QED BY <2>1, <4>1, <4>2, Zenon
    <3> QED BY <3>2, <3>3
  <2>3. ASSUME NEW a \in Nat, cmd = [op |-> "erase", addr |-> a]
        PROVE  \/ Execute(c, cmd) = [c EXCEPT !.mem = ErasedAt(c.mem, a), !.wel = FALSE, !.four = c.four, !.busy = TRUE]
               \/ Execute(c, cmd) = [c EXCEPT !.mem = c.mem, !.wel = c.wel, !.four = c.four, !.busy = c.busy]
    <3>1. cmd.op = "erase" /\ cmd.addr = a
      BY <2>3
    <3> QED BY <3>1 DEF Execute, ErasedAt, ChipState
  <2>4. ASSUME NEW a \in Nat, NEW page \in [1..PageSize -> Byte],
               cmd = [op |-> "program", addr |-> a, page |-> page]
        PROVE  \/ Execute(c, cmd) = [c EXCEPT !.mem = Programmed(c.mem, a, page), !.wel = FALSE, !.four = c.four, !.busy = TRUE]
               \/ Execute(c, cmd) = [c EXCEPT !.mem = Spoilt(c.mem, a), !.wel = FALSE, !.four = c.four, !.busy = TRUE]
               \/ Execute(c, cmd) = [c EXCEPT !.mem = c.mem, !.wel = c.wel, !.four = c.four, !.busy = c.busy]
    <3>1. cmd.op = "program" /\ cmd.addr = a /\ cmd.page = page
      BY <2>4
    <3>2. CASE ~c.busy /\ c.wel /\ c.four
      <4>1. Execute(c, cmd) = [c EXCEPT !.mem = Programmed(c.mem, a, page), !.wel = FALSE, !.busy = TRUE]
        BY <3>1, <3>2 DEF Execute, Programmed
      <4> QED BY <4>1, <2>1 DEF ChipState
    <3>3. CASE ~c.busy /\ c.wel /\ ~c.four
      <4>1. Execute(c, cmd) = [c EXCEPT !.mem = Spoilt(c.mem, a), !.wel = FALSE, !.busy = TRUE]
        BY <3>1, <3>3 DEF Execute, Spoilt
      <4> QED BY <4>1, <2>1 DEF ChipState
    <3>4. CASE c.busy \/ ~c.wel
      BY <3>1, <3>4 DEF Execute, ChipState
    <3> QED BY <3>2, <3>3, <3>4
  <2>5. ASSUME NEW a \in Nat
        PROVE  ErasedAt(c.mem, a) \in Memory /\ Spoilt(c.mem, a) \in Memory
    <3>1. Spoilt(c.mem, a) \in Memory
      BY <2>1 DEF Spoilt, Memory, Byte
    <3> QED BY <3>1, <2>1, ErasedMemory
  <2>6. ASSUME NEW a \in Nat, NEW page \in [1..PageSize -> Byte]
        PROVE  Programmed(c.mem, a, page) \in Memory
    BY <2>1, ProgrammedMemory
  <2>7. TRUE \in BOOLEAN /\ FALSE \in BOOLEAN
    OBVIOUS
  <2>8. ASSUME NEW a \in Nat, cmd = [op |-> "erase", addr |-> a]
        PROVE  \E m \in Memory, w \in BOOLEAN, f \in BOOLEAN, b \in BOOLEAN :
                 Execute(c, cmd) = [c EXCEPT !.mem = m, !.wel = w, !.four = f, !.busy = b]
    BY <2>1, <2>3, <2>5, <2>7, <2>8, Zenon
  <2>9. ASSUME NEW a \in Nat, NEW page \in [1..PageSize -> Byte],
               cmd = [op |-> "program", addr |-> a, page |-> page]
        PROVE  \E m \in Memory, w \in BOOLEAN, f \in BOOLEAN, b \in BOOLEAN :
                 Execute(c, cmd) = [c EXCEPT !.mem = m, !.wel = w, !.four = f, !.busy = b]
    BY <2>1, <2>4, <2>5, <2>6, <2>7, <2>9, Zenon
  <2> QED BY <2>1, <2>2, <2>8, <2>9, Zenon DEF Sent
<1>2. PICK m \in Memory, w \in BOOLEAN, f \in BOOLEAN, b \in BOOLEAN :
        Execute(c, cmd) = [c EXCEPT !.mem = m, !.wel = w, !.four = f, !.busy = b]
  BY <1>1
<1> DEFINE e == [c EXCEPT !.mem = m, !.wel = w, !.four = f, !.busy = b]
<1>3. e \in ChipState /\ e.open = c.open /\ e.stall = c.stall
  BY DEF ChipState
<1> HIDE DEF e
<1>4. Execute(c, cmd) = e
  BY <1>2 DEF e
<1> QED BY <1>3, <1>4

\* So may one that the core stalls in.
LEMMA CutProgram ==
  ASSUME NEW c \in ChipState, NEW cmd, Sent(cmd)
  PROVE  Stall(c, cmd) \in ChipState
<1> DEFINE page == [p \in 1..PageSize |-> Garbage]
           cut == [op |-> "program", addr |-> cmd.addr, page |-> page]
<1>1. CASE cmd.op = "program" /\ ~c.open
  <2>1. cmd.addr \in Nat
    BY <1>1 DEF Sent, Command
  <2>2. page \in [1..PageSize -> Byte]
    BY DEF Byte
  <2>3. Sent(cut)
    <3> HIDE DEF page
    <3> QED BY <2>1, <2>2 DEF Sent
  <2>4. Execute(c, cut) \in ChipState
    <3> HIDE DEF cut
    <3> QED BY <2>3, Executed
  <2> QED BY <1>1, <2>4 DEF Stall
<1>2. CASE ~(cmd.op = "program" /\ ~c.open)
  BY <1>2 DEF Stall
<1> QED BY <1>1, <1>2

\* Whatever is stalled or open, the chip stays one; where nothing will stall,
\* the transaction is closed after a command.
LEMMA SentKeeps ==
  ASSUME NEW c \in ChipState, NEW cmd, Sent(cmd)
  PROVE  /\ send_spi(c, cmd) \in ChipState
         /\ c.stall = 0 => send_spi(c, cmd).stall = 0 /\ ~send_spi(c, cmd).open
<1> DEFINE n == IF c.stall = 0 THEN 0 ELSE c.stall - 1
           d == [c EXCEPT !.stall = n]
<1>1. d \in ChipState /\ d.open = c.open /\ d.stall = n
  BY DEF ChipState
<1>2. CASE c.stall # 1 /\ c.open
  <2> DEFINE e == [c EXCEPT !.open = FALSE, !.stall = n]
  <2>1. send_spi(c, cmd) = e
    BY <1>2 DEF send_spi
  <2> HIDE DEF n
  <2>2. e \in ChipState
    <3>1. n \in Nat
      BY DEF n, ChipState
    <3> QED BY <3>1 DEF ChipState
  <2>3. ~e.open
    BY DEF ChipState
  <2>4. e.stall = n
    BY DEF ChipState
  <2> HIDE DEF e
  <2> QED BY <2>1, <2>2, <2>3, <2>4 DEF n
<1>3. CASE c.stall = 1
  <2>1. Stall(c, cmd) \in ChipState
    BY CutProgram
  <2> DEFINE e == [Stall(c, cmd) EXCEPT !.open = TRUE, !.stall = 0]
  <2>2. send_spi(c, cmd) = e
    BY <1>3 DEF send_spi
  <2>3. e \in ChipState
    BY <2>1 DEF ChipState
  <2> HIDE DEF e
  <2> QED BY <2>2, <2>3, <1>3
<1>4. CASE ~c.open /\ c.stall # 1
  <2>1. send_spi(c, cmd) = Execute(d, cmd)
    BY <1>4 DEF send_spi
  <2> HIDE DEF d
  <2>2. /\ Execute(d, cmd) \in ChipState
        /\ Execute(d, cmd).open = d.open
        /\ Execute(d, cmd).stall = d.stall
    BY <1>1, Executed
  <2> QED BY <2>1, <2>2, <1>1, <1>4
<1> QED BY <1>2, <1>3, <1>4

\* c is a chip, with no transaction open and none to stall if q holds.
Quiet(c, q) == c \in ChipState /\ (q => c.stall = 0 /\ ~c.open)

LEMMA QuietSent ==
  ASSUME NEW c, NEW q \in BOOLEAN, c \in ChipState, q => c.stall = 0, NEW cmd, Sent(cmd)
  PROVE  Quiet(send_spi(c, cmd), q)
BY SentKeeps DEF Quiet

LEMMA QuietCommand ==
  ASSUME NEW c, NEW q \in BOOLEAN, c \in ChipState, q => c.stall = 0,
         NEW op \in {"write_enable", "write_disable", "enter_4b", "exit_4b",
                     "flag_status", "status", "read"}
  PROVE  Quiet(send_spi(c, Command(op)), q)
BY QuietSent DEF Sent

LEMMA QuietModes ==
  ASSUME NEW c, NEW q \in BOOLEAN, c \in ChipState, q => c.stall = 0
  PROVE  Quiet(flash_enter_4b_mode(c), q) /\ Quiet(flash_exit_4b_mode(c), q)
<1> DEFINE enabled == send_spi(c, Command("write_enable"))
<1>1. Quiet(enabled, q)
  BY QuietCommand
<1> HIDE DEF enabled
<1>2. Quiet(send_spi(enabled, Command("enter_4b")), q)
  BY <1>1, QuietCommand DEF Quiet
<1>3. Quiet(send_spi(send_spi(enabled, Command("enter_4b")), Command("flag_status")), q)
  BY <1>2, QuietCommand DEF Quiet
<1>4. Quiet(send_spi(send_spi(send_spi(enabled, Command("enter_4b")), Command("flag_status")),
                     Command("write_disable")), q)
  BY <1>3, QuietCommand DEF Quiet
<1>5. Quiet(send_spi(enabled, Command("exit_4b")), q)
  BY <1>1, QuietCommand DEF Quiet
<1>6. Quiet(send_spi(send_spi(enabled, Command("exit_4b")), Command("flag_status")), q)
  BY <1>5, QuietCommand DEF Quiet
<1>7. Quiet(send_spi(send_spi(send_spi(enabled, Command("exit_4b")), Command("flag_status")),
                     Command("write_disable")), q)
  BY <1>6, QuietCommand DEF Quiet
<1> QED BY <1>4, <1>7 DEF enabled, flash_enter_4b_mode, flash_exit_4b_mode

\* The chip is at rest.
Resting(c) == In(c, c.mem, 0, 0, 0)

\* A quiet chip whose status has been polled is idle.
LEMMA PolledIdle ==
  ASSUME NEW c, Quiet(c, TRUE)
  PROVE  \E m, w, f : In(send_spi(c, Command("status")), m, w, f, 0)
<1> DEFINE w == IF c.wel THEN 1 ELSE 0
           f == IF c.four THEN 1 ELSE 0
<1>1. CASE c.busy
  <2>1. In(c, c.mem, w, f, 1)
    BY <1>1 DEF Quiet, In, ChipState
  <2>2. In(send_spi(c, Command("status")), c.mem, w, f, 0)
    BY <2>1, StatusPolled, Zenon
  <2> QED BY <2>2, Zenon
<1>2. CASE ~c.busy
  <2>1. In(c, c.mem, w, f, 0)
    BY <1>2 DEF Quiet, In, ChipState
  <2>2. In(send_spi(c, Command("status")), c.mem, w, f, 0)
    BY <2>1, StatusRead, Zenon
  <2> QED BY <2>2, Zenon
<1> QED BY <1>1, <1>2

LEMMA RestingIn ==
  ASSUME NEW c, NEW m, In(c, m, 0, 0, 0)
  PROVE  Resting(c)
BY DEF In, Resting

\* Every driver function leaves a chip, and one at rest where nothing stalls.
LEMMA EraseRests ==
  ASSUME NEW c \in ChipState, NEW q \in BOOLEAN, q => c.stall = 0, NEW a \in Nat
  PROVE  /\ flash_erase_sector(c, a) \in ChipState
         /\ q => Resting(flash_erase_sector(c, a))
<1> DEFINE entered == flash_enter_4b_mode(c)
           enabled == send_spi(entered, Command("write_enable"))
           erase == send_spi(enabled, [op |-> "erase", addr |-> a])
           polled == send_spi(erase, Command("status"))
           left == flash_exit_4b_mode(polled)
           done == send_spi(left, Command("write_disable"))
<1>1. Quiet(entered, q)
  BY QuietModes
<1>2. Quiet(enabled, q)
  BY <1>1, QuietCommand DEF Quiet
<1>3. Quiet(erase, q)
  <2>1. Sent([op |-> "erase", addr |-> a])
    BY DEF Sent
  <2> HIDE DEF enabled
  <2> QED BY <1>2, <2>1, QuietSent DEF Quiet
<1> HIDE DEF erase
<1>4. Quiet(polled, q)
  BY <1>3, QuietCommand DEF Quiet
<1>5. ASSUME q PROVE Resting(done)
  <2>1. PICK m, w, f : In(polled, m, w, f, 0)
    BY <1>3, <1>5, PolledIdle
  <2> HIDE DEF polled
  <2>2. In(left, m, 0, 0, 0)
    BY <2>1, ModeLeft, Zenon
  <2> HIDE DEF left
  <2>3. In(done, m, 0, 0, 0)
    BY <2>2, WriteDisable, Zenon
  <2> QED BY <2>3, RestingIn
<1>6. done \in ChipState
  <2> HIDE DEF polled
  <2>1. Quiet(left, q)
    BY <1>4, QuietModes DEF Quiet
  <2> HIDE DEF left
  <2> QED BY <2>1, QuietCommand DEF Quiet
<1>7. flash_erase_sector(c, a) = done
  BY DEF flash_erase_sector, erase
<1> QED BY <1>5, <1>6, <1>7

LEMMA WriteRests ==
  ASSUME NEW c \in ChipState, NEW q \in BOOLEAN, q => c.stall = 0, NEW a \in Nat,
         NEW page \in [1..PageSize -> Byte]
  PROVE  /\ flash_write_page(c, a, page) \in ChipState
         /\ q => Resting(flash_write_page(c, a, page))
<1> DEFINE entered == flash_enter_4b_mode(c)
           enabled == send_spi(entered, Command("write_enable"))
           program == send_spi(enabled, [op |-> "program", addr |-> a, page |-> page])
           polled == send_spi(program, Command("status"))
           disabled == send_spi(polled, Command("write_disable"))
           done == flash_exit_4b_mode(disabled)
<1>1. Quiet(entered, q)
  BY QuietModes
<1>2. Quiet(enabled, q)
  BY <1>1, QuietCommand DEF Quiet
<1>3. Quiet(program, q)
  <2>1. Sent([op |-> "program", addr |-> a, page |-> page])
    BY DEF Sent
  <2> HIDE DEF enabled
  <2> QED BY <1>2, <2>1, QuietSent DEF Quiet
<1> HIDE DEF program
<1>4. Quiet(polled, q)
  BY <1>3, QuietCommand DEF Quiet
<1>5. ASSUME q PROVE Resting(done)
  <2>1. PICK m, w, f : In(polled, m, w, f, 0)
    BY <1>3, <1>5, PolledIdle
  <2> HIDE DEF polled
  <2>2. In(disabled, m, 0, f, 0)
    BY <2>1, WriteDisable, Zenon
  <2> HIDE DEF disabled
  <2>3. In(done, m, 0, 0, 0)
    BY <2>2, ModeLeft, Zenon
  <2> QED BY <2>3, RestingIn
<1>6. done \in ChipState
  <2> HIDE DEF polled
  <2>1. Quiet(disabled, q)
    BY <1>4, QuietCommand DEF Quiet
  <2> HIDE DEF disabled
  <2> QED BY <2>1, QuietModes DEF Quiet
<1>7. flash_write_page(c, a, page) = done
  BY DEF flash_write_page, program
<1> QED BY <1>5, <1>6, <1>7

LEMMA ReadRests ==
  ASSUME NEW c \in ChipState, NEW q \in BOOLEAN, q => c.stall = 0
  PROVE  /\ flash_read(c) \in ChipState
         /\ q => Resting(flash_read(c))
         /\ \A a \in Addr : flash_read_data(c, a) \in Byte
<1> DEFINE entered == flash_enter_4b_mode(c)
           read == send_spi(entered, Command("read"))
           polled == send_spi(read, Command("status"))
           done == flash_exit_4b_mode(polled)
<1>1. Quiet(entered, q)
  BY QuietModes
<1>2. \A a \in Addr : flash_read_data(c, a) \in Byte
  <2>1. entered.mem \in Memory
    BY <1>1 DEF Quiet, ChipState
  <2>2. Garbage \in Byte
    BY DEF Byte
  <2> QED BY <2>1, <2>2 DEF flash_read_data, Memory
<1>3. Quiet(read, q)
  BY <1>1, QuietCommand DEF Quiet
<1> HIDE DEF read
<1>4. Quiet(polled, q)
  BY <1>3, QuietCommand DEF Quiet
<1>5. ASSUME q PROVE Resting(done)
  <2>1. PICK m, w, f : In(polled, m, w, f, 0)
    BY <1>3, <1>5, PolledIdle
  <2> HIDE DEF polled
  <2>2. In(done, m, 0, 0, 0)
    BY <2>1, ModeLeft, Zenon
  <2> QED BY <2>2, RestingIn
<1> HIDE DEF polled
<1>6. done \in ChipState
  BY <1>4, QuietModes DEF Quiet
<1>7. flash_read(c) = done
  BY DEF flash_read, read, polled
<1> QED BY <1>2, <1>5, <1>6, <1>7

LEMMA StoreRests ==
  ASSUME NEW c \in ChipState, NEW q \in BOOLEAN, q => c.stall = 0, NEW a \in Nat,
         NEW page \in [1..PageSize -> Byte]
  PROVE  /\ StorePage(c, a, page) \in ChipState
         /\ q => Resting(StorePage(c, a, page))
<1> DEFINE d == IF a % SectorSize = 0 THEN flash_erase_sector(c, a) ELSE c
<1>1. d \in ChipState /\ (q => d.stall = 0)
  BY EraseRests DEF Resting, In
<1> HIDE DEF d
<1>2. /\ flash_write_page(d, a, page) \in ChipState
      /\ q => Resting(flash_write_page(d, a, page))
  BY <1>1, WriteRests
<1> QED BY <1>2 DEF StorePage, d

-----------------------------------------------------------------------------
(***************************************************************************)
(* The inductive invariant and its parts.                                  *)
(***************************************************************************)
TypeOK ==
  /\ mem \in Memory
  /\ wel \in BOOLEAN /\ four \in BOOLEAN /\ busy \in BOOLEAN /\ open \in BOOLEAN
  /\ kind \in {"none", "write", "read", "cmd"}
  /\ transfer \in Nat /\ start \in Nat /\ u32 \in Nat /\ nleft \in Nat
  /\ got \in Seq(Byte)
  /\ tot_len \in 0..BlockSize /\ len \in 0..tot_len /\ writing \in BOOLEAN
  /\ disturbed \in BOOLEAN /\ spi \in {"driver", "stalled", "command"}
  /\ last \in {"none", "write", "read", "cmd"}

\* The rest of a read is inside the flash, and a transfer in progress is not
\* the one that was completed last.
ReadFits ==
  /\ kind = "read" => start + Len(got) + nleft <= Size
  /\ kind # "none" => last = "none"

\* The next byte of the transfer, if there is one, begins a page.
Whole == ~(writing /\ len = tot_len /\ tot_len < BlockSize)

WriteFits ==
  /\ writing => kind = "write"
  /\ kind = "write" =>
       /\ start % SectorSize = 0
       /\ start + u32 <= Size
       /\ writing => start + u32 + (tot_len - len) <= Size
       /\ Whole => u32 % PageSize = 0
       /\ writing /\ Whole => len % PageSize = 0

\* The rest of the sector that an undisturbed write is in has been erased.
ErasedAhead ==
  ~disturbed /\ kind = "write" /\ Whole /\ (start + u32) % SectorSize # 0 =>
    \A a \in SectorOf(start + u32) : a >= start + u32 => mem[a] = Erased

\* The memory m in which a page can be stored at a.
Ahead(m, a) == IF a % SectorSize = 0 THEN ErasedAt(m, a) ELSE m

\* StorePage, from an idle chip.
LEMMA PageStored ==
  ASSUME NEW c, NEW m \in Memory, In(c, m, 0, 0, 0), NEW a \in Nat,
         NEW page \in [1..PageSize -> Byte]
  PROVE  In(StorePage(c, a, page), Programmed(Ahead(m, a), a, page), 0, 0, 0)
<1> DEFINE d == IF a % SectorSize = 0 THEN flash_erase_sector(c, a) ELSE c
<1>1. In(d, Ahead(m, a), 0, 0, 0)
  <2>1. CASE a % SectorSize = 0
    BY <2>1, SectorErased DEF Ahead
  <2>2. CASE a % SectorSize # 0
    BY <2>2 DEF Ahead
  <2> QED BY <2>1, <2>2
<1>2. Ahead(m, a) \in Memory
  BY ErasedMemory DEF Ahead
<1> HIDE DEF d
<1>3. In(flash_write_page(d, a, page), Programmed(Ahead(m, a), a, page), 0, 0, 0)
  BY <1>1, <1>2, PageWritten, Zenon
<1> QED BY <1>3 DEF StorePage, d

\* The chip as the handlers see it, and as they leave it.
LEMMA ChipIn ==
  ASSUME TypeOK, AtRest
  PROVE  In(Chip(0), mem, 0, 0, 0)
<1>1. Chip(0) \in ChipState
  BY DEF TypeOK, Chip, ChipState
<1>2. /\ Chip(0).mem = mem /\ Chip(0).wel = wel /\ Chip(0).four = four
      /\ Chip(0).busy = busy /\ Chip(0).open = open /\ Chip(0).stall = 0
  BY DEF Chip
<1> QED BY <1>1, <1>2 DEF In, AtRest

LEMMA ChipOut ==
  ASSUME NEW c, NEW m, In(c, m, 0, 0, 0), ChipBecomes(c)
  PROVE  /\ mem' = m
         /\ wel' \in BOOLEAN /\ four' \in BOOLEAN /\ busy' \in BOOLEAN
         /\ open' \in BOOLEAN
         /\ ~wel' /\ ~four' /\ ~busy' /\ ~open'
BY DEF In, ChipState, ChipBecomes

\* The memory m after a page has been stored at x: other sectors and what is
\* below x are as they were, the page is there, the sector after it is erased.
Around(m, x, page, after) ==
  /\ \A a \in Addr \ SectorOf(x) : after[a] = m[a]
  /\ \A a \in Addr : a < x => after[a] = m[a]
  /\ \A j \in 0..(PageSize - 1) : x + j \in Addr => after[x + j] = page[j + 1]
  /\ \A a \in SectorOf(x) : a >= x + PageSize => after[a] = Erased

LEMMA MemoryAround ==
  ASSUME NEW m \in Memory, NEW x \in Nat, x % PageSize = 0,
         x % SectorSize # 0 => \A a \in SectorOf(x) : a >= x => m[a] = Erased,
         NEW page \in [1..PageSize -> Byte]
  PROVE  Around(m, x, page, Programmed(Ahead(m, x), x, page))
<1> USE FlashAssumption
<1> DEFINE ahead == Ahead(m, x)
           after == Programmed(ahead, x, page)
<1>1. \A a \in Addr : a \in Nat
  BY DEF Addr
<1>2. \A a \in SectorOf(x) : a >= x => ahead[a] = Erased
  BY DEF Ahead, ErasedAt, SectorOf
<1>3. \A a \in Addr \ SectorOf(x) : ahead[a] = m[a]
  BY DEF Ahead, ErasedAt
<1>4. ASSUME NEW a \in Addr, a < x
      PROVE  ahead[a] = m[a]
  <2>1. CASE x % SectorSize = 0
    <3>1. a \notin SectorOf(x)
      BY <1>1, <1>4, <2>1, SectorStart DEF SectorOf
    <3> QED BY <3>1, <1>3
  <2>2. CASE x % SectorSize # 0
    BY <2>2 DEF Ahead
  <2> QED BY <2>1, <2>2
<1> HIDE DEF ahead
<1>5. ASSUME NEW j \in 0..(PageSize - 1), x + j \in Addr
      PROVE  x + j \in SectorOf(x) /\ after[x + j] = page[j + 1]
  <2>1. (x + j) \div SectorSize = x \div SectorSize
    <3>1. /\ PageSize \in Nat \ {0} /\ SectorSize \in Nat \ {0}
          /\ SectorSize % PageSize = 0
      OBVIOUS
    <3> QED BY <3>1, PageInSector, ZenonT(60)
  <2>2. x + j \in SectorOf(x) /\ x + j >= x /\ (x + j) - x = j
    BY <2>1, <1>5 DEF SectorOf
  <2>3. ahead[x + j] = Erased
    BY <2>2, <1>2
  <2>4. after[x + j] = Program(ahead[x + j], page[j + 1])
    BY <1>5, <2>2 DEF Programmed
  <2> QED BY <2>2, <2>3, <2>4 DEF Program
<1>6. ASSUME NEW a \in Addr, ~(a - x \in 0..(PageSize - 1))
      PROVE  after[a] = ahead[a]
  BY <1>6 DEF Programmed
<1>7. ASSUME NEW a \in Addr, a - x \in 0..(PageSize - 1)
      PROVE  a \in SectorOf(x) /\ after[a] = page[a - x + 1] /\ a - x + 1 \in 1..PageSize
  <2>1. a = x + (a - x)
    BY <1>1
  <2>2. a - x + 1 \in 1..PageSize
    BY <1>1, <1>7
  <2> QED BY <1>5, <1>7, <2>1, <2>2
<1> HIDE DEF after
<1>8. \A a \in Addr \ SectorOf(x) : after[a] = m[a]
  BY <1>3, <1>6, <1>7
<1>9. \A a \in Addr : a < x => after[a] = m[a]
  <2> SUFFICES ASSUME NEW a \in Addr, a < x
               PROVE  after[a] = m[a]
    OBVIOUS
  <2>1. ~(a - x \in 0..(PageSize - 1))
    BY <1>1
  <2> QED BY <2>1, <1>4, <1>6
<1>10. \A a \in SectorOf(x) : a >= x + PageSize => after[a] = Erased
  <2> SUFFICES ASSUME NEW a \in SectorOf(x), a >= x + PageSize
               PROVE  after[a] = Erased
    OBVIOUS
  <2>1. a \in Addr
    BY DEF SectorOf
  <2>2. ~(a - x \in 0..(PageSize - 1)) /\ a >= x
    BY <1>1, <2>1
  <2> QED BY <2>1, <2>2, <1>2, <1>6
<1>11. \A j \in 0..(PageSize - 1) : x + j \in Addr => after[x + j] = page[j + 1]
  BY <1>5
<1>12. Around(m, x, page, after)
  BY <1>8, <1>9, <1>10, <1>11 DEF Around
<1> QED BY <1>12 DEF after, ahead

FlashInv ==
  /\ TypeOK
  /\ Recovers
  /\ ReadFits
  /\ WriteFits
  /\ ErasedAhead
  /\ StoredAsSent
  /\ ReadsBack

LEMMA SizeNat == Size \in Nat
BY FlashAssumption DEF Size

-----------------------------------------------------------------------------
(***************************************************************************)
(* Every action keeps the invariant; all but WritePage leave the flash.    *)
(***************************************************************************)
LEMMA InitFlash == Init => FlashInv
<1> USE FlashAssumption
<1> SUFFICES ASSUME Init PROVE FlashInv
  OBVIOUS
<1>1. mem \in Memory
  BY DEF Init, Memory, Byte
<1>2. TypeOK
  <2>1. wel \in BOOLEAN /\ four \in BOOLEAN /\ busy \in BOOLEAN /\ open \in BOOLEAN
    BY DEF Init
  <2>2. got \in Seq(Byte)
    BY DEF Init
  <2>3. tot_len \in 0..BlockSize /\ len \in 0..tot_len
    BY DEF Init
  <2>4. transfer \in Nat /\ start \in Nat /\ u32 \in Nat /\ nleft \in Nat
    BY DEF Init
  <2>5. writing \in BOOLEAN
    BY DEF Init
  <2> QED BY <1>1, <2>1, <2>2, <2>3, <2>4, <2>5 DEF Init, TypeOK
<1>3. Recovers /\ ReadFits /\ WriteFits /\ ErasedAhead
  BY SizeNat DEF Init, Recovers, AtRest, ReadFits, WriteFits, ErasedAhead
<1>4. StoredAsSent /\ ReadsBack
  BY DEF Init, StoredAsSent, ReadsBack
<1> QED BY <1>2, <1>3, <1>4 DEF FlashInv

LEMMA OpenWriteKeeps == FlashInv /\ OpenWrite => FlashInv' /\ mem' = mem
<1> USE FlashAssumption
<1> SUFFICES ASSUME FlashInv, OpenWrite PROVE FlashInv' /\ mem' = mem
  OBVIOUS
<1>1. PICK a \in Addr : a % SectorSize = 0 /\ start' = a
  BY DEF OpenWrite
<1>2. /\ kind = "none" /\ kind' = "write" /\ transfer' = transfer + 1 /\ u32' = 0
      /\ nleft' = 0 /\ got' = <<>> /\ disturbed' \in BOOLEAN /\ spi' = spi /\ last' = "none"
      /\ mem' = mem /\ wel' = wel /\ four' = four /\ busy' = busy /\ open' = open
      /\ tot_len' = tot_len /\ len' = len /\ writing' = writing
  BY DEF OpenWrite, chip, write_loop
<1>3. TypeOK'
  BY <1>1, <1>2 DEF FlashInv, TypeOK, Addr
<1>4. Recovers' /\ ReadFits'
  BY <1>2 DEF FlashInv, Recovers, AtRest, ReadFits
<1>5. ~writing
  BY <1>2 DEF FlashInv, WriteFits
<1>6. 0 % PageSize = 0
  BY IsMultiple, PageSize * 0 = 0
<1>7. start' + u32' = a /\ a \in Nat /\ a <= Size /\ Size \in Nat
  BY <1>1, <1>2 DEF Addr, Size
<1>8. WriteFits'
  BY <1>1, <1>2, <1>5, <1>6, <1>7 DEF WriteFits
<1>9. ErasedAhead'
  BY <1>1, <1>7 DEF ErasedAhead
<1>10. StoredAsSent' /\ ReadsBack'
  BY <1>2 DEF StoredAsSent, ReadsBack
<1> QED BY <1>2, <1>3, <1>4, <1>8, <1>9, <1>10 DEF FlashInv

LEMMA OpenReadKeeps == FlashInv /\ OpenRead => FlashInv' /\ mem' = mem
<1> USE FlashAssumption
<1> SUFFICES ASSUME FlashInv, OpenRead PROVE FlashInv' /\ mem' = mem
  OBVIOUS
<1>0. PICK a \in Addr : start' = a /\ nleft' \in 0..(Size - a)
  BY DEF OpenRead
<1>1. PICK b \in 0..(Size - a) : start' = a /\ nleft' = b
  BY <1>0
<1>2. /\ kind = "none" /\ kind' = "read" /\ transfer' = transfer + 1 /\ u32' = 0
      /\ got' = <<>> /\ disturbed' \in BOOLEAN /\ spi' = spi /\ last' = "none"
      /\ mem' = mem /\ wel' = wel /\ four' = four /\ busy' = busy /\ open' = open
      /\ tot_len' = tot_len /\ len' = len /\ writing' = writing
  BY DEF OpenRead, chip, write_loop
<1>3. a \in Nat /\ Size \in Nat /\ b \in Nat /\ a + b <= Size
  <2>1. Size \in Nat
    BY SizeNat
  <2>2. a \in Nat /\ a < Size
    BY <2>1 DEF Addr
  <2> QED BY <2>1, <2>2
<1>4. TypeOK'
  BY <1>1, <1>2, <1>3 DEF FlashInv, TypeOK
<1>5. ~writing
  BY <1>2 DEF FlashInv, WriteFits
<1>6. Recovers' /\ WriteFits' /\ ErasedAhead'
  BY <1>2, <1>5 DEF FlashInv, Recovers, AtRest, WriteFits, ErasedAhead
<1>7. ReadFits'
  <2>1. Len(got') = 0
    BY <1>2
  <2>2. a + 0 + b <= Size
    BY <1>3
  <2>3. start' + Len(got') + nleft' <= Size
    BY <1>1, <2>1, <2>2
  <2> QED BY <1>2, <2>3 DEF ReadFits
<1>8. StoredAsSent' /\ ReadsBack'
  BY <1>2 DEF StoredAsSent, ReadsBack
<1> QED BY <1>2, <1>4, <1>6, <1>7, <1>8 DEF FlashInv

LEMMA OpenCmdKeeps ==
  ASSUME FlashInv, OpenCmd
  PROVE  FlashInv' /\ mem' = mem
<1> USE FlashAssumption
<1>1. /\ kind = "none" /\ kind' = "cmd" /\ transfer' = transfer + 1 /\ u32' = 0
      /\ nleft' \in CmdLens /\ start' = 0
      /\ got' = <<>> /\ disturbed' \in BOOLEAN /\ spi' = "command" /\ last' = "none"
      /\ mem' = mem /\ wel' = wel /\ four' = four /\ busy' = busy /\ open' = TRUE
      /\ tot_len' = tot_len /\ len' = len /\ writing' = writing
  BY DEF OpenCmd, write_loop
<1>2. TypeOK'
  BY <1>1 DEF FlashInv, TypeOK
<1>3. ~writing
  BY <1>1 DEF FlashInv, WriteFits
<1>4. Recovers' /\ ReadFits' /\ WriteFits' /\ ErasedAhead'
  BY <1>1, <1>3 DEF FlashInv, Recovers, AtRest, ReadFits, WriteFits, ErasedAhead
<1>5. StoredAsSent' /\ ReadsBack'
  BY <1>1 DEF StoredAsSent, ReadsBack
<1> QED BY <1>1, <1>2, <1>4, <1>5 DEF FlashInv

LEMMA WriteBlockKeeps ==
  ASSUME FlashInv, NEW n \in 0..BlockSize, WriteBlock(n)
  PROVE  FlashInv' /\ mem' = mem
<1> USE FlashAssumption
<1>1. /\ kind = "write" /\ ~writing /\ start + u32 + n <= Size
      /\ writing' = TRUE /\ tot_len' = n /\ len' = 0
      /\ mem' = mem /\ wel' = wel /\ four' = four /\ busy' = busy /\ open' = open
      /\ kind' = kind /\ transfer' = transfer /\ start' = start /\ u32' = u32
      /\ nleft' = nleft /\ got' = got /\ disturbed' = disturbed /\ spi' = spi /\ last' = last
  BY DEF WriteBlock, chip, tapcp_state, history
<1>2. TypeOK'
  BY <1>1 DEF FlashInv, TypeOK
<1>3. Recovers' /\ ReadFits'
  BY <1>1 DEF FlashInv, Recovers, AtRest, ReadFits
<1>4. Whole
  BY <1>1 DEF Whole
<1>5. 0 % PageSize = 0
  BY IsMultiple, PageSize * 0 = 0
<1>6. tot_len' - len' = n
  BY <1>1
<1>7. WriteFits'
  BY <1>1, <1>4, <1>5, <1>6 DEF FlashInv, WriteFits
<1>8. ErasedAhead'
  BY <1>1, <1>4 DEF FlashInv, ErasedAhead
<1>9. StoredAsSent' /\ ReadsBack'
  BY <1>1 DEF FlashInv, StoredAsSent, ReadsBack
<1> QED BY <1>1, <1>2, <1>3, <1>7, <1>8, <1>9 DEF FlashInv

LEMMA WriteReturnKeeps ==
  ASSUME FlashInv, WriteReturn
  PROVE  FlashInv' /\ mem' = mem
<1> USE FlashAssumption
<1>1. /\ writing /\ len = tot_len /\ writing' = FALSE
      /\ tot_len' = tot_len /\ len' = len
      /\ mem' = mem /\ wel' = wel /\ four' = four /\ busy' = busy /\ open' = open
      /\ transfer' = transfer /\ start' = start /\ u32' = u32
      /\ nleft' = nleft /\ got' = got /\ disturbed' = disturbed /\ spi' = spi
  BY DEF WriteReturn, chip
<1>2. kind = "write"
  BY <1>1 DEF FlashInv, WriteFits
<1>3. \/ tot_len < BlockSize /\ kind' = "none" /\ last' = "write"
      \/ tot_len >= BlockSize /\ kind' = kind /\ last' = last
  BY <1>2 DEF WriteReturn, EndIfShort, FlashInv, TypeOK
<1>4. TypeOK'
  BY <1>1, <1>2, <1>3 DEF FlashInv, TypeOK
<1>5. Recovers' /\ ReadFits'
  BY <1>1, <1>2, <1>3 DEF FlashInv, Recovers, AtRest, ReadFits
<1>6. kind' = "write" => Whole
  BY <1>3 DEF Whole, FlashInv, TypeOK
<1>7. WriteFits' /\ ErasedAhead'
  BY <1>1, <1>2, <1>6 DEF FlashInv, WriteFits, ErasedAhead
<1>8. StoredAsSent' /\ ReadsBack'
  BY <1>1, <1>2, <1>3 DEF FlashInv, StoredAsSent, ReadsBack
<1> QED BY <1>1, <1>4, <1>5, <1>7, <1>8 DEF FlashInv

LEMMA AbandonKeeps ==
  ASSUME FlashInv, Abandon
  PROVE  FlashInv' /\ mem' = mem
<1> USE FlashAssumption
<1>1. /\ ~writing /\ kind' = "none" /\ nleft' = 0
      /\ mem' = mem /\ wel' = wel /\ four' = four /\ busy' = busy /\ open' = open
      /\ transfer' = transfer /\ start' = start /\ u32' = u32
      /\ got' = got /\ disturbed' = disturbed /\ spi' = spi /\ last' = last
      /\ tot_len' = tot_len /\ len' = len /\ writing' = writing
  BY DEF Abandon, chip, write_loop, history
<1>2. TypeOK'
  BY <1>1 DEF FlashInv, TypeOK
<1>3. Recovers' /\ ReadFits' /\ WriteFits' /\ ErasedAhead'
  BY <1>1 DEF FlashInv, Recovers, AtRest, ReadFits, WriteFits, ErasedAhead
<1>4. StoredAsSent' /\ ReadsBack'
  BY <1>1 DEF FlashInv, StoredAsSent, ReadsBack
<1> QED BY <1>1, <1>2, <1>3, <1>4 DEF FlashInv

LEMMA ReadCmdKeeps ==
  ASSUME FlashInv, ReadCmd
  PROVE  FlashInv' /\ mem' = mem
<1> USE FlashAssumption
<1> DEFINE n == IF nleft > BlockSize THEN BlockSize ELSE nleft
<1>1. /\ kind = "cmd" /\ nleft' = nleft - n /\ (open' <=> (open /\ ~CmdCloses(n)))
      /\ open' \in BOOLEAN
      /\ mem' = mem /\ wel' = wel /\ four' = four /\ busy' = busy
      /\ transfer' = transfer /\ start' = start /\ u32' = u32
      /\ got' = got /\ disturbed' = disturbed /\ spi' = spi
      /\ tot_len' = tot_len /\ len' = len /\ writing' = writing
  BY DEF ReadCmd, write_loop
<1>2. n \in Nat /\ n <= nleft /\ nleft \in Nat
  BY DEF FlashInv, TypeOK
<1>3. \/ n < BlockSize /\ kind' = "none" /\ last' = "cmd"
      \/ n >= BlockSize /\ kind' = kind /\ last' = last
  BY <1>1, <1>2 DEF ReadCmd, EndIfShort
<1> HIDE DEF n
<1>4. Recovers'
  BY <1>1 DEF FlashInv, Recovers, AtRest
<1>5. TypeOK'
  BY <1>1, <1>2, <1>3 DEF FlashInv, TypeOK
<1>6. ~writing
  BY <1>1 DEF FlashInv, WriteFits
<1>7. ReadFits' /\ WriteFits' /\ ErasedAhead'
  BY <1>1, <1>3, <1>6 DEF FlashInv, ReadFits, WriteFits, ErasedAhead
<1>8. kind' # "read" /\ (last' = "read" => last = "read")
  BY <1>1, <1>3
<1>9. StoredAsSent' /\ ReadsBack'
  BY <1>1, <1>8 DEF FlashInv, StoredAsSent, ReadsBack
<1> QED BY <1>1, <1>4, <1>5, <1>7, <1>9 DEF FlashInv

\* What every call of a driver function keeps, and what is known of a transfer
\* that is still undisturbed after it.
LEMMA DrivenKeeps ==
  ASSUME TypeOK, NEW k \in Nat, NEW c \in ChipState, k = 0 => Resting(c), Driven(k, c)
  PROVE  /\ mem' \in Memory /\ wel' \in BOOLEAN /\ four' \in BOOLEAN
         /\ busy' \in BOOLEAN /\ open' \in BOOLEAN
         /\ disturbed' \in BOOLEAN /\ spi' \in {"driver", "stalled", "command"}
         /\ Recovers'
         /\ ~disturbed' => k = 0 /\ AtRest /\ ~disturbed
<1>1. ChipBecomes(c) /\ spi' = IF k = 0 THEN "driver" ELSE "stalled"
  BY DEF Driven
<1>2. disturbed' = (disturbed \/ ~AtRest \/ k # 0)
  BY DEF Driven
<1>3. disturbed' \in BOOLEAN /\ (~disturbed' => k = 0 /\ AtRest /\ ~disturbed)
  BY <1>2
<1>4. /\ mem' \in Memory /\ wel' \in BOOLEAN /\ four' \in BOOLEAN
      /\ busy' \in BOOLEAN /\ open' \in BOOLEAN
  BY <1>1 DEF ChipBecomes, ChipState
<1>5. spi' \in {"driver", "stalled", "command"}
  BY <1>1
<1>6. ASSUME k = 0
      PROVE  ~open' /\ ~busy' /\ ~wel' /\ ~four'
  <2>1. In(c, c.mem, 0, 0, 0)
    BY <1>6 DEF Resting
  <2> QED BY <2>1, <1>1, ChipOut
<1>7. Recovers'
  BY <1>1, <1>6 DEF Recovers, AtRest
<1> QED BY <1>3, <1>4, <1>5, <1>7

\* The chip as the handlers find it.
LEMMA ChipFound ==
  ASSUME TypeOK, NEW k \in Stalls
  PROVE  /\ k \in Nat
         /\ Chip(k) \in ChipState /\ (k = 0 => Chip(k).stall = 0)
<1>1. k \in Nat
  BY DEF Stalls, MaxCommands
<1>2. Chip(k) \in ChipState /\ Chip(k).stall = k
  BY <1>1 DEF TypeOK, Chip, ChipState
<1> QED BY <1>1, <1>2

\* An undisturbed read returns mem at the next addresses.
LEMMA ReadBlockKeeps ==
  ASSUME FlashInv, ReadBlock
  PROVE  FlashInv' /\ (~disturbed' => mem' = mem)
<1> USE FlashAssumption
<1> DEFINE n == IF nleft > BlockSize THEN BlockSize ELSE nleft
           a == start + Len(got)
<1>1. /\ kind = "read" /\ nleft' = nleft - n
      /\ transfer' = transfer /\ start' = start /\ u32' = u32
      /\ tot_len' = tot_len /\ len' = len /\ writing' = writing
  BY DEF ReadBlock, write_loop
<1>2. /\ n \in Nat /\ n <= nleft /\ nleft \in Nat /\ a \in Nat /\ start \in Nat
      /\ got \in Seq(Byte) /\ Len(got) \in Nat
  BY DEF FlashInv, TypeOK
<1>3. a + n + nleft' <= Size /\ nleft' \in Nat /\ Size \in Nat
  <2>1. Size \in Nat
    BY SizeNat
  <2> QED BY <1>1, <1>2, <2>1 DEF FlashInv, ReadFits
<1>4. (n < BlockSize /\ kind' = "none" /\ last' = "read") \/ UNCHANGED <<kind, last>>
  BY <1>1 DEF ReadBlock, EndIfShort
<1>5. ~writing
  BY <1>1 DEF FlashInv, WriteFits
<1>6. WriteFits' /\ ErasedAhead'
  BY <1>1, <1>4, <1>5 DEF WriteFits, ErasedAhead
<1>7. CASE n = 0
  <2>1. /\ mem' = mem /\ wel' = wel /\ four' = four /\ busy' = busy /\ open' = open
        /\ got' = got /\ disturbed' = disturbed /\ spi' = spi
    BY <1>7 DEF ReadBlock, chip
  <2> HIDE DEF n
  <2>2. TypeOK' /\ Recovers'
    BY <2>1, <1>1, <1>3, <1>4 DEF FlashInv, TypeOK, Recovers, AtRest
  <2>3. ReadFits'
    BY <2>1, <1>1, <1>2, <1>3, <1>4, <1>7 DEF FlashInv, ReadFits
  <2>4. StoredAsSent' /\ ReadsBack'
    BY <2>1, <1>1, <1>4 DEF FlashInv, StoredAsSent, ReadsBack
  <2> QED BY <2>1, <2>2, <2>3, <2>4, <1>6 DEF FlashInv
<1>8. CASE n # 0
  <2>1. PICK k \in Stalls :
          /\ Driven(k, flash_read(Chip(k)))
          /\ got' = got \o [p \in 1..n |-> flash_read_data(Chip(k), a + p - 1)]
    BY <1>8 DEF ReadBlock
  <2> HIDE DEF n
  <2> DEFINE block == [p \in 1..n |-> flash_read_data(Chip(k), a + p - 1)]
             q == k = 0
  <2>2. k \in Nat /\ Chip(k) \in ChipState /\ (k = 0 => Chip(k).stall = 0)
    BY ChipFound DEF FlashInv
  <2>3. /\ flash_read(Chip(k)) \in ChipState
        /\ k = 0 => Resting(flash_read(Chip(k)))
        /\ \A b \in Addr : flash_read_data(Chip(k), b) \in Byte
    <3>1. q \in BOOLEAN /\ (q => Chip(k).stall = 0)
      BY <2>2
    <3>2. /\ flash_read(Chip(k)) \in ChipState
          /\ q => Resting(flash_read(Chip(k)))
          /\ \A b \in Addr : flash_read_data(Chip(k), b) \in Byte
      <4> HIDE DEF q
      <4> QED BY <3>1, <2>2, ReadRests
    <3> QED BY <3>2
  <2>4. /\ mem' \in Memory /\ wel' \in BOOLEAN /\ four' \in BOOLEAN
        /\ busy' \in BOOLEAN /\ open' \in BOOLEAN
        /\ disturbed' \in BOOLEAN /\ spi' \in {"driver", "stalled", "command"}
        /\ Recovers'
        /\ ~disturbed' => k = 0 /\ AtRest /\ ~disturbed
    BY <2>1, <2>2, <2>3, DrivenKeeps DEF FlashInv
  <2>5. \A p \in 1..n : a + p - 1 \in Addr
    BY <1>2, <1>3 DEF Addr
  <2>6. block \in Seq(Byte) /\ Len(block) = n
    <3>1. block \in [1..n -> Byte]
      BY <2>3, <2>5
    <3> HIDE DEF block
    <3> QED BY <1>2, <3>1
  <2>7. got' = got \o block /\ got' \in Seq(Byte) /\ Len(got') = Len(got) + n
    <3>1. got' = got \o block
      BY <2>1
    <3> HIDE DEF block, a
    <3>2. got \o block \in Seq(Byte) /\ Len(got \o block) = Len(got) + Len(block)
      BY <2>6, <1>2
    <3> QED BY <3>1, <3>2, <2>6
  <2>8. TypeOK'
    BY <1>1, <1>3, <1>4, <2>4, <2>7 DEF FlashInv, TypeOK
  <2>9. ReadFits'
    BY <1>1, <1>2, <1>3, <1>4, <2>7 DEF FlashInv, ReadFits
  <2>10. ASSUME ~disturbed'
         PROVE  mem' = mem /\ \A b : flash_read_data(Chip(k), b) = mem[b]
    <3>1. In(Chip(k), mem, 0, 0, 0)
      BY <2>4, <2>10, ChipIn DEF FlashInv
    <3>2. /\ In(flash_read(Chip(k)), mem, 0, 0, 0)
          /\ \A b : flash_read_data(Chip(k), b) = mem[b]
      BY <3>1, ReadDone, Zenon
    <3>3. mem' = mem
      BY <2>1, <3>2, ChipOut DEF Driven
    <3> QED BY <3>2, <3>3
  <2>11. ASSUME ~disturbed', NEW p \in 1..(Len(got) + n)
         PROVE  got'[p] = mem[start + p - 1]
    <3>1. CASE p <= Len(got)
      <4>1. p \in 1..Len(got) /\ got'[p] = got[p]
        <5> HIDE DEF block
        <5> QED BY <2>6, <2>7, <1>2, <3>1
      <4> QED BY <4>1, <1>1, <2>4, <2>11 DEF FlashInv, ReadsBack
    <3>2. CASE p > Len(got)
      <4>1. p - Len(got) \in 1..n
        BY <1>2, <3>2
      <4>2. got'[p] = block[p - Len(got)]
        <5> HIDE DEF block
        <5> QED BY <2>6, <2>7, <1>2, <3>2
      <4>3. block[p - Len(got)] = mem[a + (p - Len(got)) - 1]
        BY <4>1, <2>10, <2>11
      <4>4. a + (p - Len(got)) - 1 = start + p - 1
        BY <1>2
      <4> QED BY <4>2, <4>3, <4>4
    <3> QED BY <1>2, <3>1, <3>2
  <2> HIDE DEF a, block
  <2>12. StoredAsSent' /\ ReadsBack'
    BY <1>1, <2>4, <2>7, <2>10, <2>11 DEF FlashInv, StoredAsSent, ReadsBack
  <2> QED BY <1>6, <2>4, <2>8, <2>9, <2>10, <2>12 DEF FlashInv
<1> QED BY <1>7, <1>8

\* In an undisturbed transfer a page is programmed over erased bytes: in a
\* sector that was erased for it just now or with an earlier page.
LEMMA WritePageKeeps ==
  ASSUME FlashInv, WritePage
  PROVE  /\ FlashInv'
         /\ ~disturbed' =>
              \A a \in Addr : mem'[a] # mem[a] =>
                \E p \in 0..(u32' - 1) : a \in SectorOf(start + p)
<1> USE FlashAssumption
<1> DEFINE left == tot_len - len
           n == IF left < PageSize THEN left ELSE PageSize
           x == start + u32
           page == Page(u32 + n)
           after == Programmed(Ahead(mem, x), x, page)
<1>1. /\ writing /\ len < tot_len /\ u32' = u32 + n /\ len' = len + n
      /\ kind' = kind /\ transfer' = transfer /\ start' = start /\ nleft' = nleft
      /\ got' = got /\ tot_len' = tot_len /\ writing' = writing /\ last' = last
  BY DEF WritePage
<1>2. kind = "write" /\ Whole
  BY <1>1 DEF FlashInv, WriteFits, Whole, TypeOK
<1>3. PICK k \in Stalls : Driven(k, StorePage(Chip(k), x, page))
  BY DEF WritePage
<1>4. /\ len \in Nat /\ tot_len \in Nat /\ tot_len <= BlockSize /\ left \in Nat
      /\ n \in 1..PageSize /\ n <= left /\ u32 \in Nat /\ start \in Nat
      /\ transfer \in Nat /\ x \in Nat /\ Size \in Nat
  <2>1. Size \in Nat
    BY SizeNat
  <2> QED BY <1>1, <2>1 DEF FlashInv, TypeOK
<1>5. /\ start % SectorSize = 0 /\ u32 % PageSize = 0 /\ len % PageSize = 0
      /\ x + left <= Size
  BY <1>1, <1>2 DEF FlashInv, WriteFits
<1>6. x % PageSize = 0
  <2>1. start % PageSize = 0
    BY <1>4, <1>5, MultipleTransitive
  <2> QED BY <2>1, <1>4, <1>5, MultipleSum
<1>7. n < PageSize => n = left
  BY <1>4
<1>8. page \in [1..PageSize -> Byte]
  <2>1. \A p \in 1..PageSize : Data(transfer, u32 + p - 1) \in Byte
    <3>1. \A p \in 1..PageSize : u32 + p - 1 \in Nat
      BY <1>4
    <3> QED BY <3>1, <1>4 DEF Byte
  <2>2. Garbage \in Byte
    BY DEF Byte
  <2> QED BY <2>1, <2>2 DEF Page
<1>9. mem \in Memory
  BY DEF FlashInv, TypeOK
<1>10. /\ mem' \in Memory /\ wel' \in BOOLEAN /\ four' \in BOOLEAN
       /\ busy' \in BOOLEAN /\ open' \in BOOLEAN
       /\ disturbed' \in BOOLEAN /\ spi' \in {"driver", "stalled", "command"}
       /\ Recovers'
       /\ ~disturbed' => k = 0 /\ AtRest /\ ~disturbed
  <2> HIDE DEF page, x
  <2> DEFINE c == StorePage(Chip(k), x, page)
             q == k = 0
  <2>1. k \in Nat /\ Chip(k) \in ChipState /\ (k = 0 => Chip(k).stall = 0)
    BY ChipFound DEF FlashInv
  <2>2. q \in BOOLEAN /\ (q => Chip(k).stall = 0)
    BY <2>1
  <2>3. c \in ChipState /\ (q => Resting(c))
    <3> HIDE DEF q
    <3> QED BY <2>1, <2>2, <1>4, <1>8, StoreRests
  <2>4. c \in ChipState /\ (k = 0 => Resting(c)) /\ Driven(k, c)
    BY <2>3, <1>3
  <2> HIDE DEF c, q
  <2> QED BY <2>1, <2>4, DrivenKeeps DEF FlashInv
<1>11. ASSUME ~disturbed'
       PROVE  mem' = after
  <2>1. In(Chip(k), mem, 0, 0, 0)
    BY <1>10, <1>11, ChipIn DEF FlashInv
  <2> HIDE DEF page, x
  <2>2. In(StorePage(Chip(k), x, page), after, 0, 0, 0)
    BY <2>1, <1>4, <1>8, <1>9, PageStored, Zenon
  <2> HIDE DEF after
  <2> QED BY <2>2, <1>3, ChipOut DEF Driven
<1>12. \A j \in 0..(n - 1) : page[j + 1] = Data(transfer, u32 + j)
  <2> SUFFICES ASSUME NEW j \in 0..(n - 1)
               PROVE  page[j + 1] = Data(transfer, u32 + j)
    OBVIOUS
  <2>1. j + 1 \in 1..PageSize /\ u32 + (j + 1) <= u32 + n /\ u32 + (j + 1) - 1 = u32 + j
    BY <1>4
  <2> QED BY <2>1 DEF Page
<1> HIDE DEF page, after, n, left
<1>13. ~disturbed' /\ x % SectorSize # 0 =>
         \A a \in SectorOf(x) : a >= x => mem[a] = Erased
  BY <1>2, <1>10 DEF FlashInv, ErasedAhead
<1> HIDE DEF x
<1>14. ASSUME ~disturbed'
       PROVE  /\ \A a \in Addr \ SectorOf(x) : after[a] = mem[a]
              /\ \A a \in Addr : a < x => after[a] = mem[a]
              /\ \A j \in 0..(PageSize - 1) : x + j \in Addr => after[x + j] = page[j + 1]
              /\ \A a \in SectorOf(x) : a >= x + PageSize => after[a] = Erased
  <2>1. x % SectorSize # 0 => \A a \in SectorOf(x) : a >= x => mem[a] = Erased
    BY <1>13, <1>14
  <2>2. Around(mem, x, page, after)
    BY <1>4, <1>6, <1>8, <1>9, <2>1, MemoryAround, ZenonT(30) DEF after
  <2> QED BY <2>2, Zenon DEF Around
<1>15. x \in Addr /\ x + n <= Size
  BY <1>4, <1>5 DEF Addr
<1>16. TypeOK'
  <2>1. u32 + n \in Nat /\ len + n \in 0..tot_len
    BY <1>4 DEF left
  <2> QED BY <1>1, <1>10, <2>1 DEF FlashInv, TypeOK
<1>17. ReadFits'
  BY <1>1, <1>2, <1>10 DEF FlashInv, ReadFits
<1>18. Whole' => n = PageSize
  <2> SUFFICES ASSUME Whole', n # PageSize PROVE FALSE
    OBVIOUS
  <2>1. n < PageSize /\ n = left
    BY <1>4, <1>7
  <2>2. len' = tot_len'
    BY <1>1, <1>4, <2>1 DEF left
  <2>3. tot_len = BlockSize
    BY <1>1, <1>4, <2>2 DEF Whole
  <2>4. len + PageSize <= tot_len
    BY <1>1, <1>4, <1>5, <2>3, MultipleGap
  <2> QED BY <1>4, <2>1, <2>4 DEF left
<1>19. Whole' => u32' % PageSize = 0 /\ len' % PageSize = 0
  <2>1. PageSize % PageSize = 0
    BY IsMultiple, PageSize * 1 = PageSize
  <2>2. (u32 + PageSize) % PageSize = 0 /\ (len + PageSize) % PageSize = 0
    BY <2>1, <1>4, <1>5, MultipleSum, ZenonT(60)
  <2> QED BY <1>1, <1>18, <2>2
<1>20. WriteFits'
  <2>1. start' + u32' = x + n /\ tot_len' - len' = left - n
    BY <1>1, <1>4 DEF x, left
  <2>2. start' + u32' <= Size /\ start' + u32' + (tot_len' - len') <= Size
    BY <2>1, <1>4, <1>5
  <2> QED BY <1>1, <1>2, <1>5, <1>19, <2>2 DEF WriteFits
<1>21. ErasedAhead'
  <2> SUFFICES ASSUME ~disturbed', Whole', (start' + u32') % SectorSize # 0,
                      NEW a \in SectorOf(start' + u32'), a >= start' + u32'
               PROVE  mem'[a] = Erased
    BY DEF ErasedAhead
  <2>1. start' + u32' = x + PageSize
    BY <1>1, <1>4, <1>18 DEF x
  <2>2. (x + PageSize) \div SectorSize = x \div SectorSize
    <3>1. (x + PageSize) % SectorSize # 0
      BY <2>1
    <3> QED BY <3>1, <1>4, <1>6, NextPageInSector, Zenon
  <2>3. a \in SectorOf(x) /\ a >= x + PageSize
    BY <2>1, <2>2 DEF SectorOf
  <2> QED BY <2>3, <1>11, <1>14
<1>22. StoredAsSent'
  <2>0. 0..(u32' - 1) = 0..(u32 + n - 1)
    BY <1>1, <1>4
  <2> SUFFICES ASSUME ~disturbed', NEW p \in 0..(u32 + n - 1)
               PROVE  after[start + p] = Data(transfer, p)
    BY <1>1, <1>11, <2>0 DEF StoredAsSent
  <2>1. start + p \in Addr
    BY <1>4, <1>15 DEF Addr, x
  <2>2. CASE p < u32
    <3>1. p \in 0..(u32 - 1) /\ start + p < x
      BY <1>4, <2>2 DEF x
    <3>2. mem[start + p] = Data(transfer, p)
      BY <3>1, <1>10 DEF FlashInv, StoredAsSent
    <3> QED BY <2>1, <3>1, <3>2, <1>14
  <2>3. CASE p >= u32
    <3> DEFINE j == p - u32
    <3>1. j \in 0..(n - 1) /\ j \in 0..(PageSize - 1) /\ x + j = start + p /\ u32 + j = p
      BY <1>4, <2>3 DEF x
    <3> HIDE DEF j
    <3>2. after[x + j] = page[j + 1]
      BY <2>1, <3>1, <1>14
    <3> QED BY <3>1, <3>2, <1>12
  <2> QED BY <1>4, <2>2, <2>3
<1>23. ReadsBack'
  <2>1. last # "read"
    BY <1>2 DEF FlashInv, ReadFits
  <2> QED BY <1>1, <1>2, <2>1 DEF ReadsBack
<1>24. ~disturbed' =>
         \A a \in Addr : mem'[a] # mem[a] =>
           \E p \in 0..(u32' - 1) : a \in SectorOf(start + p)
  <2> SUFFICES ASSUME ~disturbed', NEW a \in Addr, after[a] # mem[a]
               PROVE  \E p \in 0..(u32' - 1) : a \in SectorOf(start + p)
    BY <1>11
  <2>1. a \in SectorOf(start + u32)
    BY <1>14 DEF x
  <2>2. u32 \in 0..(u32' - 1)
    BY <1>1, <1>4
  <2> QED BY <2>1, <2>2
<1> QED BY <1>10, <1>16, <1>17, <1>20, <1>21, <1>22, <1>23, <1>24 DEF FlashInv

-----------------------------------------------------------------------------
LEMMA StutterKeeps == FlashInv /\ UNCHANGED vars => FlashInv' /\ mem' = mem
<1> SUFFICES ASSUME FlashInv, UNCHANGED vars PROVE FlashInv' /\ mem' = mem
  OBVIOUS
<1>1. /\ mem' = mem /\ wel' = wel /\ four' = four /\ busy' = busy /\ open' = open
      /\ kind' = kind /\ transfer' = transfer /\ start' = start /\ u32' = u32
      /\ nleft' = nleft /\ got' = got /\ disturbed' = disturbed /\ spi' = spi /\ last' = last
      /\ tot_len' = tot_len /\ len' = len /\ writing' = writing
  BY DEF vars, chip, tapcp_state, write_loop, history
<1>2. TypeOK' /\ Recovers' /\ ReadFits'
  BY <1>1 DEF FlashInv, TypeOK, Recovers, AtRest, ReadFits
<1>3. WriteFits' /\ ErasedAhead'
  BY <1>1 DEF FlashInv, WriteFits, Whole, ErasedAhead
<1>4. StoredAsSent' /\ ReadsBack'
  BY <1>1 DEF FlashInv, StoredAsSent, ReadsBack
<1> QED BY <1>1, <1>2, <1>3, <1>4 DEF FlashInv

\* What an undisturbed step changes in the flash lies in sectors of its own
\* transfer.
Touched ==
  ~disturbed' =>
    \A a \in Addr : mem'[a] # mem[a] =>
      \E p \in 0..(u32' - 1) : a \in SectorOf(start + p)

LEMMA StepKeeps ==
  ASSUME FlashInv, [Next]_vars
  PROVE  FlashInv' /\ Touched
<1>1. (~disturbed' => mem' = mem) => Touched
  BY DEF Touched
<1>2. CASE OpenWrite
  BY <1>1, <1>2, OpenWriteKeeps
<1>3. CASE OpenRead
  BY <1>1, <1>3, OpenReadKeeps
<1>4. CASE OpenCmd
  BY <1>1, <1>4, OpenCmdKeeps
<1>5. ASSUME NEW n \in 0..BlockSize, WriteBlock(n)
      PROVE  FlashInv' /\ Touched
  BY <1>1, <1>5, WriteBlockKeeps
<1>6. CASE WritePage
  BY <1>6, WritePageKeeps DEF Touched
<1>7. CASE WriteReturn
  BY <1>1, <1>7, WriteReturnKeeps
<1>8. CASE ReadBlock
  BY <1>1, <1>8, ReadBlockKeeps
<1>9. CASE ReadCmd
  BY <1>1, <1>9, ReadCmdKeeps
<1>10. CASE Abandon
  BY <1>1, <1>10, AbandonKeeps
<1>11. CASE UNCHANGED vars
  BY <1>1, <1>11, StutterKeeps
<1> QED
  BY <1>2, <1>3, <1>4, <1>5, <1>6, <1>7, <1>8, <1>9, <1>10, <1>11 DEF Next

\* The invariant holds of every behaviour, for every size of the flash, its
\* sectors, pages and blocks, and every number of stalls and transfers.
LEMMA FlashInvariant == Spec => []FlashInv
<1>1. Init => FlashInv
  BY InitFlash
<1>2. FlashInv /\ [Next]_vars => FlashInv'
  BY StepKeeps
<1> QED BY <1>1, <1>2, PTL DEF Spec

\* FlashRecovers: flash_erase_sector, flash_write_page and flash_read, when they
\* meet no stall themselves, leave the chip at rest whatever stalls, unclosed
\* flash commands and abandoned transfers came before: an open transaction costs
\* one command, and the polling and flash_exit_4b_mode undo the rest.
THEOREM FlashRecovers == Spec => []Recovers
<1>1. FlashInv => Recovers
  BY DEF FlashInv
<1> QED BY <1>1, FlashInvariant, PTL

\* FlashStores: casper_tapcp_write_flash_words_binary stores what it is sent:
\* a write that is not disturbed itself is in flash as sent, whatever was in
\* flash and whatever stalled, stayed unclosed or was abandoned before, for every
\* number and size of sectors, pages and blocks.
THEOREM FlashStores == Spec => []StoredAsSent
<1>1. FlashInv => StoredAsSent
  BY DEF FlashInv
<1> QED BY <1>1, FlashInvariant, PTL

\* FlashReads: casper_tapcp_read_flash_bytes_binary returns what the flash
\* holds to a read that is not disturbed itself, whatever wrote it and whatever
\* stalled, stayed unclosed or was abandoned before.
THEOREM FlashReads == Spec => []ReadsBack
<1>1. FlashInv => ReadsBack
  BY DEF FlashInv
<1> QED BY <1>1, FlashInvariant, PTL

\* FlashSpares: in a transfer that is not disturbed no handler changes a byte of
\* flash outside the sectors of the bytes its own transfer has written.
THEOREM FlashSpares == Spec => OthersUntouched
<1>1. FlashInv /\ [Next]_vars => Touched
  BY StepKeeps
<1> QED BY <1>1, FlashInvariant, PTL DEF Spec, OthersUntouched, Touched

=============================================================================
