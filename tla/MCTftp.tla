------------------------------- MODULE MCTftp -------------------------------
(***************************************************************************)
(* TLC instances of TftpSystem.                                            *)
(***************************************************************************)
EXTENDS TftpSystem

CONSTANTS c1, c2
=============================================================================
