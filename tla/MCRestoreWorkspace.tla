------------------------- MODULE MCRestoreWorkspace -------------------------
(* Instances of RestoreWorkspace for TLC. *)
EXTENDS RestoreWorkspace

CONSTANTS backup1, backup2
=============================================================================
