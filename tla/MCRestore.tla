------------------------------- MODULE MCRestore -------------------------------
(* Two files for TLC, small at first; f2 grows too large for a zip. *)
EXTENDS Restore

CONSTANTS f1, f2

MCLarge == {<<f2, 2>>}
=================================================================================
