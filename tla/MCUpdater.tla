------------------------------ MODULE MCUpdater ------------------------------
(***************************************************************************)
(* Small instance of Updater: two releases above the running version, so   *)
(* that one can supersede the other, and two tries for each.               *)
(***************************************************************************)
EXTENDS Updater

MCRelease == {2, 3}
=============================================================================
