--------------------------- MODULE MCRemoteServer ---------------------------
(***************************************************************************)
(* RemoteServer for TLC: the handles are few enough to be used again while *)
(* a thread still knows them by their old meaning.                         *)
(***************************************************************************)
EXTENDS RemoteServer

\* What follows after a server was started on top of threads of an earlier one
\* is left out: only TypeOK says anything of it, and every other property
\* holds there as soon as calm is FALSE.
OnlyCalm == calm
=============================================================================
