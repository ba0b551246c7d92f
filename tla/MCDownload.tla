------------------------------- MODULE MCDownload -------------------------------
(* Two files for TLC: f2 grows too large for a zip, and in the mirror run f1
   starts as an object of its own and shrinks into one. *)
EXTENDS Download

CONSTANTS f1, f2

MCLarge  == {<<f2, 2>>}
MCMirror == {<<f1, 1>>, <<f2, 2>>}
=================================================================================
