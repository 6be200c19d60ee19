----------------------------- MODULE MCIPHistory -----------------------------
(***************************************************************************)
(* Addresses for the runs of IPHistory.                                    *)
(***************************************************************************)
EXTENDS IPHistory

CONSTANTS home, away

Two == {home, away}
=============================================================================
