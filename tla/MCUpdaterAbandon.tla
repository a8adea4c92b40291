------------------------------ MODULE MCUpdaterAbandon ------------------------------
(***************************************************************************)
(* Updater with a history variable, for the one property that looks back   *)
(* further than the state does.                                            *)
(***************************************************************************)
EXTENDS Updater

VARIABLE givenUp   \* versions discarded after MAX_INSTALL_ATTEMPTS

Discards ==
  /\ tray = "idle" /\ tray' # "idle"
  /\ update_pending.attempts >= MAX_INSTALL_ATTEMPTS

GivenUpSpec ==
  /\ Init /\ givenUp = {}
  /\ [][/\ Next
        /\ givenUp' = IF Discards THEN givenUp \cup {update_pending.version} ELSE givenUp
       ]_<<vars, givenUp>>

\* docs/DATA_LAYOUT.md: after three failed installs "the staged version is
\* abandoned rather than retried forever".
GivenUpIsAbandoned == Valid(pending) => pending.version \notin givenUp
=============================================================================
