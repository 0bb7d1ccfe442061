------------------------------ MODULE MCTapcp ------------------------------
(* An address space of 128 bytes.  The FPGA's part has a register of a      *)
(* single word that is read only, between two devices that are not.         *)
EXTENDS TapcpWrite

Dev(o, l, ro) == [offset |-> o, length |-> l, ro |-> ro]
MCDevices == [a |-> Dev(0, 12, FALSE), s |-> Dev(12, 4, TRUE), b |-> Dev(16, 8, FALSE)]
MCTexts == [help |-> [at |-> 8, bytes |-> 5], listdev |-> [at |-> 16, bytes |-> 4]]

Req(c, n, o, l, w, b) ==
  [cmd |-> c, name |-> n, off |-> o, len |-> l, write |-> w, binary |-> b]

\* Reads in both modes; the offsets and lengths that matter are around the ends
\* of the region and of the address space.
Reads ==
  {Req("dev", n, o, l, FALSE, b) : n \in {"a", "s", "z"}, o \in {0, 1, 3, 31},
                                   l \in {None, 3, 31}, b \in BOOLEAN}
    \cup {Req("fpga", "", o, l, FALSE, b) : o \in {1, 20, 125}, l \in {None, 7, 125}, b \in BOOLEAN}
    \cup {Req("cpu", "", o, l, FALSE, b) : o \in {6, 124}, l \in {0, 5}, b \in BOOLEAN}
    \cup {Req(c, "", 0, None, FALSE, TRUE) : c \in {"help", "listdev"}}

WriteRequests ==
  {Req("dev", "b", 0, None, TRUE, FALSE), Req("dev", "s", 0, None, TRUE, FALSE),
   Req("dev", "b", 1, None, TRUE, TRUE), Req("dev", "b", 3, None, TRUE, TRUE),
   Req("fpga", "", 18, None, TRUE, TRUE), Req("cpu", "", 4, None, TRUE, TRUE)}

MCRequests == Reads \cup WriteRequests
MCUploads == {Req("dev", "b", 0, None, TRUE, FALSE)}
=============================================================================
