--------------------------- MODULE MCScreenStream ---------------------------
(***************************************************************************)
(* ScreenStream for TLC: screens of a few tiles.                           *)
(***************************************************************************)
EXTENDS ScreenStream

\* Two sizes with the tiles of the client's own screen, and a larger one.
SmallSizes == {<<2, 1>>, <<1, 2>>, <<3, 1>>}
OwnSize == <<2, 1>>
=============================================================================
