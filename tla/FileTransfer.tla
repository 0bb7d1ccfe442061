---------------------------- MODULE FileTransfer ----------------------------
(***************************************************************************)
(* What the TFTP server promises: one transfer at a time owns the board,   *)
(* only the owner's file changes, it grows block by block in order, and a  *)
(* client believes a block stored only after it is.                        *)
(***************************************************************************)
EXTENDS Naturals, Sequences

CONSTANTS Clients, Nobody, FileLen

VARIABLES
  owner,    \* the client whose transfer is in progress
  file,     \* file[c]: the blocks stored for c
  known     \* known[c]: how many of them c knows to be stored

vars == <<owner, file, known>>

Init ==
  /\ owner = Nobody
  /\ file = [c \in Clients |-> <<>>]
  /\ known = [c \in Clients |-> 0]

Acquire(c) ==
  /\ owner = Nobody /\ owner' = c
  /\ UNCHANGED <<file, known>>

Release ==
  /\ owner # Nobody /\ owner' = Nobody
  /\ UNCHANGED <<file, known>>

\* Storing the next block may complete the transfer.
Store(c) ==
  /\ owner = c
  /\ Len(file[c]) < FileLen
  /\ file' = [file EXCEPT ![c] = Append(@, <<c, Len(@) + 1>>)]
  /\ owner' \in {c, Nobody}
  /\ Len(file'[c]) = FileLen => owner' = Nobody
  /\ UNCHANGED known

Learn(c) ==
  /\ known[c] < Len(file[c])
  /\ known' = [known EXCEPT ![c] = @ + 1]
  /\ UNCHANGED <<owner, file>>

Next == Release \/ \E c \in Clients : Acquire(c) \/ Store(c) \/ Learn(c)

Spec == Init /\ [][Next]_vars
=============================================================================
