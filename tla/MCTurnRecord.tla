---------------------------- MODULE MCTurnRecord ----------------------------
(* Small instances of TurnRecord; the bounds are in the .cfg files.         *)
EXTENDS TurnRecord
=============================================================================
