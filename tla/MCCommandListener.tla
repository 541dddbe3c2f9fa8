------------------------- MODULE MCCommandListener -------------------------
(* CommandListener for TLC.  Its constants are given in the .cfg files. *)
EXTENDS CommandListener
=============================================================================
