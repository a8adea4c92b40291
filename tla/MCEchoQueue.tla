----------------------------- MODULE MCEchoQueue -----------------------------
(***************************************************************************)
(* Small instance of EchoQueue: two keys, so that words repeat a key and   *)
(* the user presses what was just replayed; a queue of three, so that the  *)
(* cap is met; two losses, one more than the lookahead heals.              *)
(***************************************************************************)
EXTENDS EchoQueue, TLC

CONSTANTS x, y

MCKey == {x, y}
Symmetry == Permutations(MCKey)
=============================================================================
