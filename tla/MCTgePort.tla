----------------------------- MODULE MCTgePort -----------------------------
(* Frames of the greatest length the driver takes and of the least, one that *)
(* fills the buffer, and one that is longer than it.                          *)
EXTENDS TgePort

MCLoads == {<<2, 1, 2>>, <<4>>, <<5>>}
=============================================================================
