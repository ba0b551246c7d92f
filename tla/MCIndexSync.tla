------------------------------ MODULE MCIndexSync ------------------------------
(* Two profiles and two uploads for TLC. *)
EXTENDS IndexSync

CONSTANTS p1, p2
================================================================================
