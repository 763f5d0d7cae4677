--------------------------- MODULE MCRemoteClient ---------------------------
(***************************************************************************)
(* RemoteClient for TLC: handles and connections are few enough for a      *)
(* handle to be used again while threads of its last connection run.       *)
(***************************************************************************)
EXTENDS RemoteClient, TLC

\* Handles are only compared for equality.
Symmetry == Permutations(Handles)
=============================================================================
