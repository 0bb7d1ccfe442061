------------------------------- MODULE MCEth -------------------------------
(***************************************************************************)
(* TLC instances of CasperEth.                                             *)
(***************************************************************************)
EXTENDS CasperEth

PromptOrQuiet == {[prompt |-> TRUE, send |-> 2, recv |-> 2],
                  [prompt |-> FALSE, send |-> 3, recv |-> 0]}
=============================================================================
