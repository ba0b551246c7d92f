------------------------------ MODULE MCCloudSync ------------------------------
(* Two files for TLC; f2 grows too large for an archive. *)
EXTENDS CloudSync

CONSTANTS f1, f2

MCLarge == {<<f2, 2>>}
================================================================================
