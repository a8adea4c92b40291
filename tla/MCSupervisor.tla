----------------------------- MODULE MCSupervisor -----------------------------
(***************************************************************************)
(* Small instance of Supervisor: two services, one question per refresh    *)
(* and two starts, so that one service outlives the other and a second     *)
(* PolterType meets what the first left behind.                            *)
(***************************************************************************)
EXTENDS Supervisor

CONSTANTS s1, s2

MCService == {s1, s2}
===============================================================================
