------------------------------ MODULE Devices ------------------------------
(***************************************************************************)
(* A device from the design to the bus: the toolflow gives it an address   *)
(* range and a slave number (verilog.py, wb_compute), writes it to the     *)
(* table of devices (toolflow.py) that is compiled into a list             *)
(* (cit2csl.py), the firmware finds it there by name or by type            *)
(* (casper_devcsl.c) or lists it (casper_tapcp.c), and the arbiter turns   *)
(* the address back into a slave number (wbs_arbiter.v).                   *)
(***************************************************************************)
EXTENDS Csl, FiniteSets

CONSTANTS
  Designs,    \* sets of [name, nbytes, req, ro, typecode, regs]
  Names,      \* names that are looked up
  BaseAddr,   \* dsp_wb_base_address
  Alignment,  \* dsp_wb_base_address_alignment
  EthCore,    \* the type code of an Ethernet core
  BlockSize,  \* TFTP block, in fields of a listing
  MaxLists    \* bound on the listings

NoReq == -1   \* req_offset when none is requested

ASSUME DevicesAssumption ==
  /\ BaseAddr \in Nat /\ Alignment \in Nat \ {0} /\ BaseAddr % Alignment = 0
  /\ \A ds \in Designs : \A d, e \in ds : d.name = e.name => d = e

VARIABLES
  stage,       \* "layout", "boot" or "running"
  design,      \* the devices of the design
  base_addr,   \* the next free address
  wb_devices,  \* [dev, base, high] in the order they were found: the slave numbers
  slaves,      \* the same in the order of SLAVE_ADDR and SLAVE_HIGH
  csl,         \* the list in the firmware's memory
  iter,        \* the iterator of csl.c
  eth,         \* ifstate.ptr
  list,        \* the state of /listdev: closed, open, done
  lidx,        \* state->lidx
  line_buf,    \* the line being sent
  len,         \* fields in the current block
  sent,        \* history: the fields of the listing sent so far
  lists        \* listings so far

layout == <<design, base_addr, wb_devices, slaves>>
listing == <<list, lidx, line_buf, len, sent, lists>>
vars == <<stage, layout, csl, iter, eth, listing>>

Found == {wb_devices[i].dev : i \in 1..Len(wb_devices)}
RoundUp(n) == Alignment * ((n + Alignment - 1) \div Alignment)
High(base, d) == base + RoundUp(d.nbytes) - 1

Init ==
  /\ stage = "layout" /\ design \in Designs
  /\ base_addr = BaseAddr /\ wb_devices = <<>> /\ slaves = <<>>
  /\ csl = <<>> /\ iter = csl_iter_init(<<0>>) /\ eth = 0
  /\ list = "closed" /\ lidx = 0 /\ line_buf = <<>> /\ len = 0 /\ sent = <<>> /\ lists = 0

\* Mutant: requested offsets do not push the others back.
AssignRequestedAlone(d) ==
  /\ stage = "layout" /\ d \in design \ Found /\ d.req # NoReq
  /\ LET base == BaseAddr + d.req
     IN wb_devices' = Append(wb_devices, [dev |-> d, base |-> base, high |-> High(base, d)])
  /\ UNCHANGED <<stage, design, base_addr, slaves, csl, iter, eth, listing>>

\* The first pass over the instances: devices that request an offset, in the
\* order of the blocks' names, which is any order.
AssignRequested(d) ==
  /\ stage = "layout" /\ d \in design \ Found /\ d.req # NoReq
  /\ LET base == BaseAddr + d.req
     IN /\ wb_devices' = Append(wb_devices, [dev |-> d, base |-> base, high |-> High(base, d)])
        /\ base_addr' = IF High(base, d) > base_addr THEN High(base, d) + 1 ELSE base_addr
  /\ UNCHANGED <<stage, design, slaves, csl, iter, eth, listing>>

\* The second pass: the others, one behind the other.
AssignRest(d) ==
  /\ stage = "layout" /\ d \in design \ Found
  /\ \A e \in design \ Found : e.req = NoReq
  /\ wb_devices' = Append(wb_devices,
       [dev |-> d, base |-> base_addr, high |-> High(base_addr, d)])
  /\ base_addr' = High(base_addr, d) + 1
  /\ UNCHANGED <<stage, design, slaves, csl, iter, eth, listing>>

\* Devices that share a base address keep their order, as sorted() is stable.
SortedSlaves ==
  CHOOSE s \in SetToSeqs({wb_devices[i] : i \in 1..Len(wb_devices)}) :
    \A i, j \in 1..Len(s) : i < j =>
      \/ s[i].base < s[j].base
      \/ /\ s[i].base = s[j].base
         /\ \E k, l \in 1..Len(wb_devices) : k < l /\ wb_devices[k] = s[i] /\ wb_devices[l] = s[j]

\* A line of core_info.jam.tab as cit2csl.py reads it.
EntryOf(name, offset, nbytes, ro, typecode) ==
  [name |-> name, offset |-> offset + (IF ro THEN 1 ELSE 0),
   length |-> nbytes, typecode |-> typecode]

\* write_core_jam_info: a line for every device and for every named register in
\* it.
CoreInfo ==
  UNION {{EntryOf(w.dev.name, w.base, w.dev.nbytes, w.dev.ro, w.dev.typecode)}
           \cup {EntryOf(r.name, w.base + r.offset, r.nbytes, r.ro, w.dev.typecode)
                  : r \in w.dev.regs}
         : w \in {wb_devices[i] : i \in 1..Len(wb_devices)}}

\* The end of wb_compute, and the list.
Build ==
  /\ stage = "layout" /\ design = Found
  /\ stage' = "boot" /\ slaves' = SortedSlaves /\ csl' = Encode(CoreInfo)
  /\ UNCHANGED <<design, base_addr, wb_devices, iter, eth, listing>>

\* casper_find_dev: offset and length from the payload, nothing if not found or
\* the list is empty.
casper_find_dev(name) ==
  IF csl[1] = 0 \/ csl[2] = 0 \/ csl_find_key(csl, name) = 0 THEN <<>>
  ELSE SubSeq(csl, csl_find_key(csl, name), csl_find_key(csl, name) + PayloadLen - 1)

\* casper_lwip_init: casper_find_dev_by_typecode for the first Ethernet core.
LwipInit ==
  /\ stage = "boot" /\ stage' = "running"
  /\ IF csl[1] = 0 \/ csl[2] = 0 THEN eth' = 0 /\ UNCHANGED iter
     ELSE LET n == csl_find_by_payload(csl, TypeIdx, EthCore)
          IN iter' = n.it /\ eth' = IF n.payload = 0 THEN 0 ELSE csl[n.payload]
  /\ UNCHANGED <<layout, csl, listing>>

-----------------------------------------------------------------------------
\* casper_tapcp_open_listdev in netascii mode.
OpenList ==
  /\ stage = "running" /\ list # "open" /\ lists < MaxLists
  /\ list' = "open" /\ lidx' = -1 /\ len' = 0 /\ sent' = <<>> /\ lists' = lists + 1
  /\ UNCHANGED <<stage, layout, csl, iter, eth, line_buf>>

\* The first call starts the iterator.
StartList ==
  /\ list = "open" /\ lidx = -1
  /\ iter' = csl_iter_init(csl) /\ lidx' = 0
  /\ UNCHANGED <<stage, layout, csl, eth, list, line_buf, len, sent, lists>>

\* A line: name, mode, offset without the two lowest bits, length and type, of one
\* character each, and the newline.
Line(key, n, length, typecode) ==
  <<<<"name", key>>, <<"mode", IF n % 2 = 1 THEN "r" ELSE "w">>, <<"at", 4 * (n \div 4)>>,
    <<"length", length>>, <<"type", typecode>>, <<"newline", 0>>>>

\* The end of the list: the call returns what it has, less than a block.
ListEnds ==
  /\ list = "open" /\ lidx = 0 /\ len < BlockSize
  /\ csl_iter_next(csl, iter).payload = 0
  /\ iter' = csl_iter_next(csl, iter).it
  /\ list' = "done" /\ len' = 0
  /\ UNCHANGED <<stage, layout, csl, eth, lidx, line_buf, sent, lists>>

NewLine ==
  /\ list = "open" /\ lidx = 0 /\ len < BlockSize
  /\ LET n == csl_iter_next(csl, iter)
     IN /\ n.payload # 0
        /\ iter' = n.it /\ line_buf' = Line(n.it.key, csl[n.payload],
             csl[n.payload + 1], csl[n.payload + 2])
        /\ sent' = Append(sent, line_buf'[1]) /\ len' = len + 1 /\ lidx' = 1
  /\ UNCHANGED <<stage, layout, csl, eth, list, lists>>

\* Mutant: a line is given up at the end of a block.
NextFieldDrops ==
  /\ list = "open" /\ lidx > 0 /\ len < BlockSize
  /\ sent' = Append(sent, line_buf[lidx + 1]) /\ len' = len + 1
  /\ lidx' = IF line_buf[lidx + 1][1] = "newline" \/ len' = BlockSize THEN 0 ELSE lidx + 1
  /\ UNCHANGED <<stage, layout, csl, iter, eth, list, line_buf, lists>>

NextField ==
  /\ list = "open" /\ lidx > 0 /\ len < BlockSize
  /\ sent' = Append(sent, line_buf[lidx + 1]) /\ len' = len + 1
  /\ lidx' = IF line_buf[lidx + 1][1] = "newline" THEN 0 ELSE lidx + 1
  /\ UNCHANGED <<stage, layout, csl, iter, eth, list, line_buf, lists>>

NextBlock ==
  /\ list = "open" /\ len = BlockSize /\ len' = 0
  /\ UNCHANGED <<stage, layout, csl, iter, eth, list, lidx, line_buf, sent, lists>>

\* The client is lost between two blocks.
Abandon ==
  /\ list = "open" /\ len = 0 /\ list' = "closed" /\ sent' = <<>>
  /\ UNCHANGED <<stage, layout, csl, iter, eth, lidx, line_buf, len, lists>>

Next ==
  \/ \E d \in design : AssignRequested(d) \/ AssignRest(d)
  \/ Build \/ LwipInit
  \/ OpenList \/ StartList \/ ListEnds \/ NewLine \/ NextField \/ NextBlock \/ Abandon

Spec == Init /\ [][Next]_vars

-----------------------------------------------------------------------------
\* wbs_arbiter.v: the slaves an address selects; the highest of them drives the
\* address and the data.
Selected(a) == {i \in 1..Len(slaves) : slaves[i].base <= a /\ a <= slaves[i].high}

Route(a) ==
  LET i == CHOOSE i \in Selected(a) : \A j \in Selected(a) : j <= i
  IN [slave |-> i, at |-> a - slaves[i].base]

\* The requests that wb_compute can serve: in the order their devices are found
\* they ask for ascending ranges that do not overlap.
RequestsInOrder ==
  \A i, j \in 1..Len(wb_devices) :
    i < j /\ wb_devices[j].dev.req # NoReq => wb_devices[i].high < wb_devices[j].base

Reaches(w, name, offset, nbytes) ==
  LET found == casper_find_dev(name)
      from == 4 * (found[1] \div 4)
  IN /\ found # <<>> /\ found[2] = nbytes
     /\ \A a \in 0..(nbytes - 1) :
          /\ Cardinality(Selected(from + a)) = 1
          /\ wb_devices[Route(from + a).slave] = w
          /\ Route(from + a).at = offset + a

\* ReachesOwner: an access to a device, or to a named register in it, at the
\* address the firmware finds under its name, arrives at that device's instance
\* and at the right place in it: layout, table, list, lookup and arbiter agree.
ReachesOwner ==
  stage = "running" /\ RequestsInOrder =>
    \A i \in 1..Len(wb_devices) :
      LET w == wb_devices[i]
      IN /\ Reaches(w, w.dev.name, 0, w.dev.nbytes)
         /\ \A r \in w.dev.regs : Reaches(w, r.name, r.offset, r.nbytes)

\* RequestedReached: the same of every design, also those that request offsets in
\* another order: base_addr is "the memory space used by this device".
RequestedReached ==
  stage = "running" => \A i \in 1..Len(wb_devices) :
    Reaches(wb_devices[i], wb_devices[i].dev.name, 0, wb_devices[i].dev.nbytes)

\* FindsOnlyDevices: a name is found if and only if it is in the table, and then
\* with its own entry: also one that is the beginning, or the continuation, of
\* another name.
FindsOnlyDevices ==
  stage = "running" =>
    \A n \in Names :
      LET e == {x \in CoreInfo : x.name = n}
      IN casper_find_dev(n) = IF e = {} THEN <<>> ELSE Payload(CHOOSE x \in e : TRUE)

\* FindsEthernet: the core the driver uses is the first one, by name, of the
\* design's Ethernet cores; none if there is none.
FindsEthernet ==
  stage = "running" =>
    LET e == {x \in CoreInfo : x.typecode = EthCore}
    IN eth = IF e = {} THEN 0 ELSE SortedEntries(e)[1].offset

Listing ==
  LET s == SortedEntries(CoreInfo)
  IN FlattenSeq([i \in 1..Len(s) |-> Line(s[i].name, s[i].offset, s[i].length, s[i].typecode)])

\* ListsAll: the blocks of a listing, put together, are the table in the order of
\* names; every line is there once although lines straddle blocks and the
\* iterator was used before, by the driver or by a listing given up.
ListsAll ==
  /\ list = "open" => IsPrefix(sent, Listing)
  /\ list = "done" => sent = Listing
=============================================================================
