--------------------------- MODULE MCInputChannel ---------------------------
(***************************************************************************)
(* InputChannel for TLC.                                                   *)
(***************************************************************************)
EXTENDS InputChannel
=============================================================================
